---------------------------- MODULE Spec2Model ----------------------------
(***************************************************************************)
(* Boston theory events: the scrapers' main() functions, which each write  *)
(* one file under scrapers/scraped/, and combine.py, which merges those    *)
(* files and the manual events into events.json.                           *)
(*                                                                         *)
(* A Python str is a sequence of one-character strings, so that upper(),   *)
(* the "in" substring test and the lexical order of the sort key are       *)
(* computed and not assumed.  An event (a dict) is a function from the     *)
(* field names it holds to str values; a field the dict lacks is outside   *)
(* its DOMAIN.                                                             *)
(***************************************************************************)
EXTENDS Integers, Sequences, FiniteSets, TLC

VARIABLES
    scraped,        \* scrapers/scraped/<source>.json, per source: a file state
    manual,         \* the events list of manual/events.yaml
    events_json,    \* events.json, the final catalog (a sequence of events)
    glob,           \* load_scraped_events: the order in which glob yields the files
    loaded,         \* load_scraped_events: per source, the data its file extended events by
    ran,            \* the scrapers whose main() has returned in this run
    failed,         \* the scrapers whose fetch raised RequestException in this run
    year,           \* datetime.now().year
    pc,             \* position of the run / of combine.main
    all_events,     \* combine.main: all_events
    valid_events,   \* combine.main: valid_events
    seen,           \* deduplicate_events: the dict seen, in insertion order
    i,              \* deduplicate_events: index of the next event of the for loop
    event,          \* event_completeness: its argument
    score,          \* event_completeness: its result (-1 before the call)
    arg,            \* a scraper's helper function called on its own: its arguments
    res             \* the helper's return value (NotCalled before the call)

vars == <<scraped, manual, events_json, glob, loaded, ran, failed, year, pc,
          all_events, valid_events, seen, i, event, score, arg, res>>

pipelineVars == <<scraped, manual, glob, loaded, ran, failed, year>>
mergeVars == <<all_events, valid_events, seen, i, events_json>>
scoreVars == <<event, score, arg, res>>

-----------------------------------------------------------------------------
(* Bounds *)

MaxLen == 3         \* longest candidate sequence handed to combine.main
MaxYear == 2028     \* last value of datetime.now().year
MaxText == 6         \* longest text handed to a speaker splitter

-----------------------------------------------------------------------------
(* Python str *)

\* The characters in use, in code point order.
Chars == <<" ", "-", "0", "1", "2", "3", "4", "5", "6", "7", "8", "9",
           "A", "B", "D", "G", "H", "L", "T", "X", "a", "b", "d", "t">>

Ord(c) == CHOOSE k \in 1..Len(Chars) : Chars[k] = c

UpperLetters == <<"A", "B", "C", "D", "E", "F", "G", "H", "I", "J", "K", "L", "M",
                  "N", "O", "P", "Q", "R", "S", "T", "U", "V", "W", "X", "Y", "Z">>

LowerLetters == <<"a", "b", "c", "d", "e", "f", "g", "h", "i", "j", "k", "l", "m",
                  "n", "o", "p", "q", "r", "s", "t", "u", "v", "w", "x", "y", "z">>

UpperChar(c) ==
    IF \E k \in 1..Len(LowerLetters) : LowerLetters[k] = c
    THEN UpperLetters[CHOOSE k \in 1..Len(LowerLetters) : LowerLetters[k] = c]
    ELSE c

LowerChar(c) ==
    IF \E k \in 1..Len(UpperLetters) : UpperLetters[k] = c
    THEN LowerLetters[CHOOSE k \in 1..Len(UpperLetters) : UpperLetters[k] = c]
    ELSE c

\* str.upper()
Upper(s) == [k \in 1..Len(s) |-> UpperChar(s[k])]

\* str.lower()
Lower(s) == [k \in 1..Len(s) |-> LowerChar(s[k])]

\* sub in s
Contains(sub, s) ==
    \E k \in 0..(Len(s) - Len(sub)) : SubSeq(s, k + 1, k + Len(sub)) = sub

\* a < b on str: lexicographic by code point, a proper prefix is smaller
RECURSIVE StrLess(_, _)
StrLess(a, b) ==
    IF b = <<>> THEN FALSE
    ELSE IF a = <<>> THEN TRUE
    ELSE IF a[1] # b[1] THEN Ord(a[1]) < Ord(b[1])
    ELSE StrLess(Tail(a), Tail(b))

Digits == {"0", "1", "2", "3", "4", "5", "6", "7", "8", "9"}

\* What str.strip() removes and the regex \s matches.
Whitespace == {" ", "\t", "\n", "\r"}

RECURSIVE LStrip(_)
LStrip(s) == IF s # <<>> /\ s[1] \in Whitespace THEN LStrip(Tail(s)) ELSE s

RECURSIVE RStrip(_)
RStrip(s) ==
    IF s # <<>> /\ s[Len(s)] \in Whitespace THEN RStrip(SubSeq(s, 1, Len(s) - 1)) ELSE s

\* str.strip()
Strip(s) == RStrip(LStrip(s))

\* s[k] when there is one, and no character otherwise
CharAt(s, k) == IF k \in 1..Len(s) THEN s[k] ELSE ""

\* s[a-1:b] as Python slices it: characters a..b of s, those past the ends
\* left out
Slice(s, a, b) ==
    LET lo == IF a < 1 THEN 1 ELSE a
        hi == IF b > Len(s) THEN Len(s) ELSE b
    IN  IF lo > hi THEN <<>> ELSE SubSeq(s, lo, hi)

\* s.startswith(prefix)
StartsWith(s, prefix) == Len(prefix) <= Len(s) /\ SubSeq(s, 1, Len(prefix)) = prefix

DigitChar(d) == Chars[Ord("0") + d]

\* str(n) for n >= 0
RECURSIVE DecStr(_)
DecStr(n) ==
    IF n < Ord("9") - Ord("0") + 1 THEN <<DigitChar(n)>>
    ELSE Append(DecStr(n \div (Ord("9") - Ord("0") + 1)),
                DigitChar(n % (Ord("9") - Ord("0") + 1)))

\* f"{n:02d}" for n >= 0
Format02(n) == IF Len(DecStr(n)) < 2 THEN <<"0">> \o DecStr(n) ELSE DecStr(n)

Empty == <<>>
TBA == <<"T", "B", "A">>
TBD == <<"T", "B", "D">>
tba == <<"t", "b", "a">>
tbd == <<"t", "b", "d">>
Tbd == <<"T", "b", "d">>
TBDtalk == <<"T", "B", "D", " ", "G">>
tbdtalk == <<"t", "b", "d", " ", "G">>
Graphs == <<"G">>
Games == <<"H">>
Lee == <<"L">>
SeriesX == <<"X">>
SeriesH == <<"H">>
Oct01 == <<"2", "0", "2", "5", "-", "1", "0", "-", "0", "1">>
Sep30 == <<"2", "0", "2", "5", "-", "0", "9", "-", "3", "0">>

\* A value that is not a str (yaml.safe_load yields an int for 16:15 and a
\* datetime.date for 2025-10-01) is a sequence that starts with its type tag.
IntValue == <<"#int">>
DateValue == <<"#date">>

PyType(v) ==
    IF v # <<>> /\ v[1] = "#int" THEN "int"
    ELSE IF v # <<>> /\ v[1] = "#date" THEN "date"
    ELSE "str"

NotCalled == <<"#notcalled">>

\* No helper function is being called on its own.
IdleCall == arg = <<>> /\ res = NotCalled

\* dict.get(field, "")
Get(e, field) == IF field \in DOMAIN e THEN e[field] ELSE Empty

-----------------------------------------------------------------------------
(* combine.py *)

\* Mutant: any() in place of all().
validate_any(e) == \E field \in {"title", "date"} : Get(e, field) # Empty

validate_event(e) == \A field \in {"title", "date"} : Get(e, field) # Empty

ScoredFields == <<"title", "speaker", "location", "time", "affiliation", "url">>

FieldPoint(value) ==
    IF value # Empty /\ Upper(value) # TBA /\ value # TBD THEN 1 ELSE 0

RECURSIVE FieldPoints(_, _)
FieldPoints(e, k) ==
    IF k = 0 THEN 0
    ELSE FieldPoints(e, k - 1) + FieldPoint(Get(e, ScoredFields[k]))

TitleBonus(title) ==
    IF title # Empty /\ Upper(title) # TBA /\ ~Contains(TBD, Upper(title))
    THEN 2 ELSE 0

\* event_completeness raises AttributeError: value.upper() on a true value
\* that is not a str.
ScoreRaises(e) ==
    \E k \in 1..Len(ScoredFields) :
        Get(e, ScoredFields[k]) # Empty /\ PyType(Get(e, ScoredFields[k])) # "str"

event_completeness(e) ==
    FieldPoints(e, Len(ScoredFields)) + TitleBonus(Get(e, "title"))

\* Mutant: event.get("series") without the default, so that a missing series
\* is None and differs from the empty string.
KeyOfNone(e) ==
    <<Get(e, "date"), IF "series" \in DOMAIN e THEN e["series"] ELSE <<"None">>>>

KeyOf(e) == <<Get(e, "date"), Get(e, "series")>>

\* Mutant: the first candidate of a key is kept, whatever comes later.
DedupScanKeepFirst(d, e) ==
    IF \A k \in 1..Len(d) : d[k].key # KeyOf(e)
    THEN Append(d, [key |-> KeyOf(e), event |-> e])
    ELSE d

\* Mutant: >= in place of >, so that the last of several tied candidates wins.
DedupScanLast(d, e) ==
    IF \A k \in 1..Len(d) : d[k].key # KeyOf(e)
    THEN Append(d, [key |-> KeyOf(e), event |-> e])
    ELSE LET k == CHOOSE k \in 1..Len(d) : d[k].key = KeyOf(e)
         IN  IF event_completeness(e) >= event_completeness(d[k].event)
             THEN [d EXCEPT ![k].event = e]
             ELSE d

\* One iteration of the for loop of deduplicate_events on the dict d.
DedupScan(d, e) ==
    IF \A k \in 1..Len(d) : d[k].key # KeyOf(e)
    THEN Append(d, [key |-> KeyOf(e), event |-> e])
    ELSE LET k == CHOOSE k \in 1..Len(d) : d[k].key = KeyOf(e)
         IN  IF event_completeness(e) > event_completeness(d[k].event)
             THEN [d EXCEPT ![k].event = e]
             ELSE d

\* list(seen.values())
Values(d) == [k \in 1..Len(d) |-> d[k].event]

RECURSIVE DedupFrom(_, _)
DedupFrom(d, events) ==
    IF events = <<>> THEN d
    ELSE DedupFrom(DedupScan(d, Head(events)), Tail(events))

deduplicate_events(events) == Values(DedupFrom(<<>>, events))

\* [e for e in all_events if validate_event(e)]
ValidOnly(events) == SelectSeq(events, validate_event)

\* Mutant: an unstable sort, x goes before the elements with an equal key.
InsertSortedUnstable(sorted, x) ==
    LET n == Cardinality({k \in 1..Len(sorted) :
                 StrLess(Get(sorted[k], "date"), Get(x, "date"))})
    IN  SubSeq(sorted, 1, n) \o <<x>> \o SubSeq(sorted, n + 1, Len(sorted))

\* Mutant: the sort is left out, the records stay in dict order.
InsertSortedAppend(sorted, x) == Append(sorted, x)

\* list.sort is stable: x goes after every element whose key is not greater.
InsertSorted(sorted, x) ==
    LET n == Cardinality({k \in 1..Len(sorted) :
                 ~StrLess(Get(x, "date"), Get(sorted[k], "date"))})
    IN  SubSeq(sorted, 1, n) \o <<x>> \o SubSeq(sorted, n + 1, Len(sorted))

RECURSIVE SortByDate(_)
SortByDate(events) ==
    IF events = <<>> THEN <<>>
    ELSE InsertSorted(SortByDate(SubSeq(events, 1, Len(events) - 1)),
                      events[Len(events)])

\* combine.main from the collected candidates to the written catalog
Merge(events) == SortByDate(deduplicate_events(ValidOnly(events)))

-----------------------------------------------------------------------------
(* Candidate records *)

Candidates ==
    { [title |-> TBA, date |-> Oct01, series |-> SeriesX],
      [title |-> Graphs, date |-> Oct01, series |-> SeriesX],
      [title |-> Games, date |-> Oct01, series |-> SeriesX],
      [title |-> TBA, speaker |-> Lee, date |-> Oct01, series |-> SeriesX],
      [title |-> Graphs, speaker |-> Lee, date |-> Oct01, series |-> SeriesX],
      [title |-> Graphs, date |-> Oct01, series |-> Empty],
      [title |-> Games, date |-> Oct01],
      [title |-> Graphs, date |-> Sep30, series |-> SeriesX],
      [title |-> TBA, date |-> Sep30, series |-> SeriesX],
      [title |-> Empty, date |-> Oct01, series |-> SeriesX],
      [date |-> Oct01, series |-> SeriesX],
      [title |-> Graphs, date |-> Empty, series |-> SeriesX],
      [title |-> Graphs, series |-> SeriesX] }

SeqsUpTo(S, n) == UNION { [1..k -> S] : k \in 0..n }

Range(s) == { s[k] : k \in 1..Len(s) }

-----------------------------------------------------------------------------
(* The scrapers and the files they leave for combine.py *)

Sources == {"bu", "harvard"}

\* SERIES_NAME of each scraper
SeriesName(s) == IF s = "bu" THEN SeriesX ELSE SeriesH

\* States of scraped/<source>.json as load_scraped_events tells them apart.
NoFile == [kind |-> "missing"]          \* glob does not yield it
Unreadable == [kind |-> "ioerror"]      \* open raises IOError
NotJson == [kind |-> "notjson"]         \* json.load raises JSONDecodeError
NotList == [kind |-> "notlist"]         \* valid JSON, not a list
ListFile(events) == [kind |-> "list", data |-> events]

\* What a scraper's scrape_events() can return: the events its page shows.
PageEvents(s) ==
    [tba   |-> [title |-> TBA, date |-> Oct01, series |-> SeriesName(s)],
     full  |-> [title |-> Graphs, speaker |-> Lee, date |-> Oct01, series |-> SeriesName(s)],
     other |-> [title |-> Graphs, date |-> Sep30, series |-> SeriesName(s)]]

Pages(s) ==
    { <<>>,
      <<PageEvents(s).tba>>,
      <<PageEvents(s).full>>,
      <<PageEvents(s).tba, PageEvents(s).other>>,
      <<PageEvents(s).full, PageEvents(s).other>> }

DigitValue(c) == Ord(c) - Ord("0")

\* int(text) of a run of decimal digits
RECURSIVE IntOf(_)
IntOf(text) ==
    IF text = <<>> THEN 0
    ELSE IntOf(SubSeq(text, 1, Len(text) - 1)) * (Ord("9") - Ord("0") + 1)
             + DigitValue(text[Len(text)])

\* e.get("date") and int(e["date"][:4]) >= current_year - 2
IsRecent(e, current_year) ==
    /\ Get(e, "date") # Empty
    /\ IntOf(SubSeq(e["date"], 1, 4)) >= current_year - 2

RecentOnly(events, current_year) ==
    SelectSeq(events, LAMBDA e : IsRecent(e, current_year))

\* What main() of the scraper writes, given what scrape_events() returned.
Written(s, events, current_year) ==
    IF s = "bu" THEN SortByDate(RecentOnly(events, current_year))
    ELSE RecentOnly(events, current_year)

\* main() of a scraper whose fetch succeeds: the file is overwritten.
Scrape(s) ==
    /\ pc = "scraping"
    /\ s \notin ran
    /\ \E page \in Pages(s) :
          scraped' = [scraped EXCEPT ![s] = ListFile(Written(s, page, year))]
    /\ ran' = ran \cup {s}
    /\ UNCHANGED <<manual, glob, loaded, failed, year, pc, mergeVars, scoreVars>>

\* main() of a scraper whose fetch raises RequestException: it returns
\* before the file is written.
ScrapeFails(s) ==
    /\ pc = "scraping"
    /\ s \notin ran
    /\ ran' = ran \cup {s}
    /\ failed' = failed \cup {s}
    /\ UNCHANGED <<scraped, manual, glob, loaded, year, pc, mergeVars, scoreVars>>

\* The body of the for loop of load_scraped_events for one file.
LoadFile(events, file) ==
    IF file.kind = "list" THEN events \o file.data ELSE events

\* Mutant: the try statement around the whole for loop, so that the first
\* file that fails ends the loading.
RECURSIVE LoadFromAbort(_, _, _)
LoadFromAbort(events, files, order) ==
    IF order = <<>> THEN events
    ELSE IF files[Head(order)].kind \in {"ioerror", "notjson"} THEN events
    ELSE LoadFromAbort(LoadFile(events, files[Head(order)]), files, Tail(order))

RECURSIVE LoadFrom(_, _, _)
LoadFrom(events, files, order) ==
    IF order = <<>> THEN events
    ELSE LoadFrom(LoadFile(events, files[Head(order)]), files, Tail(order))

\* load_scraped_events, the glob yielding the existing files in some order
load_scraped_events(files, order) == LoadFrom(<<>>, files, order)

\* The orders in which glob can yield the files that exist.
GlobOrders(files) ==
    LET present == { s \in Sources : files[s].kind # "missing" }
    IN  { o \in SeqsUpTo(present, Cardinality(present)) :
            /\ Len(o) = Cardinality(present)
            /\ \A a, b \in 1..Len(o) : o[a] = o[b] => a = b }

\* combine.main up to all_events.extend(manual)
Load ==
    /\ pc = "scraping"
    /\ ran = Sources
    /\ \E order \in GlobOrders(scraped) :
          /\ glob' = order
          /\ all_events' = load_scraped_events(scraped, order) \o manual
    /\ loaded' = [s \in Sources |-> LoadFile(<<>>, scraped[s])]
    /\ pc' = "collected"
    /\ UNCHANGED <<scraped, manual, ran, failed, year, valid_events, seen, i,
                   events_json, scoreVars>>

\* The next scrape-then-combine run starts, in the same year or the next.
NextRun ==
    /\ pc = "written"
    /\ pc' = "scraping"
    /\ ran' = {}
    /\ failed' = {}
    /\ year' \in { y \in {year, year + 1} : y <= MaxYear }
    /\ UNCHANGED <<scraped, manual, glob, loaded, mergeVars, scoreVars>>

-----------------------------------------------------------------------------
(* Time normalizers: harvard.parse_time and northeastern.parse_time *)

\* The regex (\d{1,2}):(\d{2}) matched at position p of s: the number of
\* hour digits taken (two when both ways match), 0 when there is no match.
TimeMatchAt(s, p) ==
    IF /\ CharAt(s, p) \in Digits /\ CharAt(s, p + 1) \in Digits
       /\ CharAt(s, p + 2) = ":"
       /\ CharAt(s, p + 3) \in Digits /\ CharAt(s, p + 4) \in Digits
    THEN 2
    ELSE IF /\ CharAt(s, p) \in Digits /\ CharAt(s, p + 1) = ":"
            /\ CharAt(s, p + 2) \in Digits /\ CharAt(s, p + 3) \in Digits
    THEN 1
    ELSE 0

\* Position of the first character of s from p on that is no whitespace.
RECURSIVE SkipSpace(_, _)
SkipSpace(s, p) == IF CharAt(s, p) \in Whitespace THEN SkipSpace(s, p + 1) ELSE p

\* harvard.parse_time
HarvardParseTime(time_str) ==
    LET s == Lower(Strip(time_str))
        starts == { p \in 1..Len(s) : TimeMatchAt(s, p) > 0 }
    IN  IF starts = {} THEN Empty
        ELSE LET p == CHOOSE q \in starts : \A r \in starts : q <= r
                 n == TimeMatchAt(s, p)
                 hour == IntOf(SubSeq(s, p, p + n - 1))
                 minute == SubSeq(s, p + n + 1, p + n + 2)
                 hour24 ==
                     IF Contains(<<"p", ".", "m">>, s) \/ Contains(<<"p", "m">>, s)
                     THEN (IF hour # 12 THEN hour + 12 ELSE hour)
                     ELSE IF Contains(<<"a", ".", "m">>, s) \/ Contains(<<"a", "m">>, s)
                     THEN (IF hour = 12 THEN 0 ELSE hour)
                     ELSE hour
             IN  Format02(hour24) \o <<":">> \o minute

\* northeastern.parse_time
NortheasternParseTime(time_str) ==
    LET s == Lower(Strip(time_str))
        n == TimeMatchAt(s, 1)
    IN  IF n = 0 THEN Empty
        ELSE LET hour == IntOf(SubSeq(s, 1, n))
                 minute == SubSeq(s, n + 2, n + 3)
                 q == SkipSpace(s, n + 4)
                 ampm ==
                     IF Slice(s, q, q + 1) \in {<<"a", "m">>, <<"p", "m">>}
                     THEN Slice(s, q, q + 1) ELSE Empty
                 hour24 ==
                     IF ampm = <<"p", "m">> /\ hour # 12 THEN hour + 12
                     ELSE IF ampm = <<"a", "m">> /\ hour = 12 THEN 0
                     ELSE hour
             IN  Format02(hour24) \o <<":">> \o minute

-----------------------------------------------------------------------------
(* crypto_day.py: the year of an event announced in an RSS item *)

\* The English month names, January first.
MonthNames ==
    << <<"J", "a", "n", "u", "a", "r", "y">>,
       <<"F", "e", "b", "r", "u", "a", "r", "y">>,
       <<"M", "a", "r", "c", "h">>,
       <<"A", "p", "r", "i", "l">>,
       <<"M", "a", "y">>,
       <<"J", "u", "n", "e">>,
       <<"J", "u", "l", "y">>,
       <<"A", "u", "g", "u", "s", "t">>,
       <<"S", "e", "p", "t", "e", "m", "b", "e", "r">>,
       <<"O", "c", "t", "o", "b", "e", "r">>,
       <<"N", "o", "v", "e", "m", "b", "e", "r">>,
       <<"D", "e", "c", "e", "m", "b", "e", "r">> >>

\* str.split()[0]: the first run of characters that are no whitespace
RECURSIVE UntilSpace(_)
UntilSpace(s) ==
    IF s = <<>> \/ s[1] \in Whitespace THEN <<>>
    ELSE <<s[1]>> \o UntilSpace(Tail(s))

FirstWord(s) == UntilSpace(LStrip(s))

\* Mutant: the key is not lower-cased before the lookup.
ParseMonthNoLower(date_str) ==
    LET month_str == Slice(FirstWord(date_str), 1, 3)
        hits == { m \in 1..Len(MonthNames) :
                    Slice(Lower(MonthNames[m]), 1, 3) = month_str }
    IN  IF hits = {} THEN 1 ELSE CHOOSE m \in hits : TRUE

\* crypto_day.parse_month: months.get(date_str.split()[0][:3].lower(), 1)
parse_month(date_str) ==
    LET month_str == Lower(Slice(FirstWord(date_str), 1, 3))
        hits == { m \in 1..Len(MonthNames) :
                    Slice(Lower(MonthNames[m]), 1, 3) = month_str }
    IN  IF hits = {} THEN 1 ELSE CHOOSE m \in hits : TRUE

\* Mutant: > in place of >=, an event in the publication month rolls over.
EventYearStrict(event_date_str, pub_year, pub_month) ==
    IF parse_month(event_date_str) > pub_month THEN pub_year ELSE pub_year + 1

\* parse_rss_item: event_year from the event's month and the publication date
EventYear(event_date_str, pub_year, pub_month) ==
    IF parse_month(event_date_str) >= pub_month THEN pub_year ELSE pub_year + 1

-----------------------------------------------------------------------------
(* Date normalizers: northeastern.parse_date and mit_cis.parse_date *)

\* None
PyNone == <<"#none">>

IsLeap(y) == (y % 4 = 0 /\ y % 100 # 0) \/ y % 400 = 0

\* calendar.monthrange(y, m)[1]
DaysInMonth(y, m) ==
    IF m = 2 THEN (IF IsLeap(y) THEN 29 ELSE 28)
    ELSE IF m \in {4, 6, 9, 11} THEN 30
    ELSE 31

\* strptime's %B at the start of s: the month whose full name s starts with,
\* in any letter case (0 when none).
MonthAtStart(s) ==
    LET hits == { m \in 1..Len(MonthNames) :
                    Lower(Slice(s, 1, Len(MonthNames[m]))) = Lower(MonthNames[m]) }
    IN  IF hits = {} THEN 0 ELSE CHOOSE m \in hits : TRUE

\* strptime's %d at position p of s, (3[0-1]|[1-2]\d|0[1-9]|[1-9]): the number
\* of digits taken, 0 when there is no match.
DayDigitsAt(s, p) ==
    IF \/ CharAt(s, p) = "3" /\ CharAt(s, p + 1) \in {"0", "1"}
       \/ CharAt(s, p) \in {"1", "2"} /\ CharAt(s, p + 1) \in Digits
       \/ CharAt(s, p) = "0" /\ CharAt(s, p + 1) \in Digits \ {"0"}
    THEN 2
    ELSE IF CharAt(s, p) \in Digits \ {"0"} THEN 1
    ELSE 0

\* datetime.strptime(s, format) for the formats "%B %d, %Y", "%B %d %Y" and
\* "%B %d": [ok |-> FALSE] stands for ValueError; without %Y the year is
\* 1900.
Strptime(s, format) ==
    LET with_year == format # "%B %d"
        comma == IF format = "%B %d, %Y" THEN 1 ELSE 0
        m == MonthAtStart(s)
        p1 == IF m = 0 THEN 1 ELSE Len(MonthNames[m]) + 1
        p2 == SkipSpace(s, p1)
        n == DayDigitsAt(s, p2)
        d == IF n = 0 THEN 0 ELSE IntOf(SubSeq(s, p2, p2 + n - 1))
        p3 == p2 + n
        p4 == SkipSpace(s, p3 + comma)
        ytext == Slice(s, p4, p4 + 3)
        y == IF with_year
             THEN (IF Len(ytext) = 4 /\ \A k \in 1..4 : ytext[k] \in Digits
                   THEN IntOf(ytext) ELSE 0)
             ELSE 1900
        shape == IF with_year
                 THEN /\ comma = 1 => CharAt(s, p3) = ","
                      /\ p4 > p3 + comma
                      /\ y > 0 /\ p4 + 3 = Len(s)
                 ELSE p3 = Len(s) + 1
    IN  IF m > 0 /\ p2 > p1 /\ n > 0 /\ shape /\ d <= DaysInMonth(y, m)
        THEN [ok |-> TRUE, year |-> y, month |-> m, day |-> d]
        ELSE [ok |-> FALSE]

\* f"{year}-{month:02d}-{day:02d}", and dt.strftime("%Y-%m-%d") for a
\* four-digit year
IsoDate(y, m, d) == DecStr(y) \o <<"-">> \o Format02(m) \o <<"-">> \o Format02(d)

\* mit_cis.parse_date
MitCisParseDate(date_str, semester_year) ==
    LET s == Strip(date_str)
        full == Strptime(s, "%B %d, %Y")
        short == Strptime(s, "%B %d")
    IN  IF full.ok THEN IsoDate(full.year, full.month, full.day)
        ELSE IF short.ok THEN IsoDate(semester_year, short.month, short.day)
        ELSE PyNone

WordChars == Digits \cup Range(UpperLetters) \cup Range(LowerLetters) \cup {"_"}

\* Position after the longest run of regex \w characters of s from p on.
RECURSIVE SkipWord(_, _)
SkipWord(s, p) == IF CharAt(s, p) \in WordChars THEN SkipWord(s, p + 1) ELSE p

\* northeastern.parse_date: (\w+)\s+(\d{1,2}) at the start, the month from
\* the first three letters of the word
NortheasternParseDate(date_str, y) ==
    LET s == Strip(date_str)
        p1 == SkipWord(s, 1)
        p2 == SkipSpace(s, p1)
        n == IF CharAt(s, p2) \in Digits
             THEN (IF CharAt(s, p2 + 1) \in Digits THEN 2 ELSE 1)
             ELSE 0
        hits == { m \in 1..Len(MonthNames) :
                    Slice(MonthNames[m], 1, 3) = Slice(s, 1, IF p1 > 4 THEN 3 ELSE p1 - 1) }
    IN  IF p1 > 1 /\ p2 > p1 /\ n > 0 /\ hits # {}
        THEN IsoDate(y, CHOOSE m \in hits : TRUE, IntOf(SubSeq(s, p2, p2 + n - 1)))
        ELSE Empty

-----------------------------------------------------------------------------
(* bu.py: unfold_ical, and the location of bu, mit_toc and northeastern *)

\* str.replace(old, new), old not empty: the occurrences of old are replaced
\* from left to right, without overlap.
RECURSIVE Replace(_, _, _)
Replace(s, old, new) ==
    IF s = <<>> THEN <<>>
    ELSE IF StartsWith(s, old)
         THEN new \o Replace(Slice(s, Len(old) + 1, Len(s)), old, new)
         ELSE <<s[1]>> \o Replace(Tail(s), old, new)

\* re.sub(r"\r?\n ", "", text)
RemoveFolds(text) == Replace(Replace(text, <<"\r", "\n", " ">>, <<>>), <<"\n", " ">>, <<>>)

\* unfold_ical
unfold_ical(text) ==
    Strip(Replace(Replace(Replace(Replace(RemoveFolds(text),
        <<"\\", "n">>, <<"\n">>),
        <<"\\", ",">>, <<",">>),
        <<"\\", ";">>, <<";">>),
        <<"\\", "\\">>, <<"\\">>))

NortheasternName == <<"N", "o", "r", "t", "h", "e", "a", "s", "t", "e", "r", "n">>
MitName == <<"M", "I", "T">>
BuName == <<"B", "U">>
DEFAULT_LOCATION == <<"M", "I", "T", " ", "3", "2", "-", "G", "4", "4", "9">>

\* northeastern.parse_event_row: the location of the third <strong> tag;
\* None when the event gets no location
NortheasternLocation(raw) ==
    LET location == Strip(raw)
    IN  IF location # Empty THEN NortheasternName \o <<" ">> \o location ELSE PyNone

\* mit_toc.parse_event_card: the location of the .room-popup element
MitTocLocation(raw) ==
    LET room_text == Strip(raw)
    IN  IF room_text # Empty THEN MitName \o <<" ">> \o room_text ELSE DEFAULT_LOCATION

\* bu.parse_event_block: the location of the LOCATION line
BuLocation(raw) ==
    LET location == unfold_ical(raw)
    IN  IF location # Empty /\ ~StartsWith(Lower(location), Lower(BuName) \o <<" ">>)
        THEN BuName \o <<" ">> \o location
        ELSE location

-----------------------------------------------------------------------------
(* bu.parse_summary and mit_cis.parse_speaker *)

\* The least number of a non-empty set of numbers
Least(S) == CHOOSE n \in S : \A m \in S : n <= m

\* Positions of the character c in s
Positions(s, c) == { k \in 1..Len(s) : s[k] = c }

\* \s*\(([^)]+)\)\s*$ matched from position p of s on: the positions of the
\* two parentheses, <<0, 0>> when there is no match. [^)]+ runs up to the
\* first closing parenthesis, line breaks included.
SummaryParenAt(s, p) ==
    LET q == SkipSpace(s, p)
        closes == { c \in Positions(s, ")") : c > q }
        c == IF closes = {} THEN 0 ELSE Least(closes)
    IN  IF CharAt(s, q) = "(" /\ c > q + 1 /\ SkipSpace(s, c + 1) = Len(s) + 1
        THEN <<q, c>> ELSE <<0, 0>>

\* \s*\((.+?)\)\s*$ matched from position p of s on: (.+?) takes no line
\* break and stops at the first closing parenthesis that ends the text.
SpeakerParenAt(s, p) ==
    LET q == SkipSpace(s, p)
        closes == { c \in Positions(s, ")") :
                      /\ c > q + 1
                      /\ "\n" \notin Range(Slice(s, q + 1, c - 1))
                      /\ SkipSpace(s, c + 1) = Len(s) + 1 }
    IN  IF CharAt(s, q) = "(" /\ closes # {}
        THEN <<q, Least(closes)>> ELSE <<0, 0>>

\* The parenthetical of the pattern of fn.
ParenAt(fn, s, p) ==
    IF fn = "parse_summary" THEN SummaryParenAt(s, p) ELSE SpeakerParenAt(s, p)

\* (.+?) at the start of s followed by the parenthetical: the shortest
\* prefix, free of line breaks, after which the rest matches.
ParenMatch(s, fn, dot) ==
    LET ends == { e \in 1..Len(s) :
                    /\ \A k \in 1..e : s[k] \in dot
                    /\ ParenAt(fn, s, e + 1) # <<0, 0>> }
    IN  IF ends = {} THEN <<>>
        ELSE LET e == Least(ends)
                 at == ParenAt(fn, s, e + 1)
             IN  <<Slice(s, 1, e), Slice(s, at[1] + 1, at[2] - 1)>>

\* What "." matches of the characters of s: all but the line break
DotOf(s) == Range(s) \ {"\n"}

\* "." under re.DOTALL
DotAll(s) == Range(s)

\* mit_cis.parse_speaker
parse_speaker(text) ==
    LET match == ParenMatch(text, "parse_speaker", DotOf(text))
    IN  IF match # <<>> THEN <<Strip(match[1]), Strip(match[2])>>
        ELSE <<Strip(text), Empty>>

\* len(potential_speaker) < 50
MaxSpeakerLen == 50

BracketChars == {"(", ")", "[", "]", "{", "}"}

\* The first branch of bu.parse_summary, on the stripped summary: <<>> when
\* it does not return.
SpeakerColonTitle(summary) ==
    IF ":" \notin Range(summary) THEN <<>>
    ELSE LET k == Least(Positions(summary, ":"))
             potential_speaker == Strip(Slice(summary, 1, k - 1))
             potential_title == Strip(Slice(summary, k + 1, Len(summary)))
         IN  IF /\ Len(potential_speaker) < MaxSpeakerLen
                /\ Range(potential_speaker) \cap BracketChars = {}
             THEN <<potential_title, potential_speaker>>
             ELSE <<>>

\* bu.parse_summary
ParseSummaryWith(text, dot) ==
    LET summary == Strip(text)
        colon == SpeakerColonTitle(summary)
        paren_match == ParenMatch(summary, "parse_summary", dot)
    IN  IF colon # <<>> THEN colon
        ELSE IF paren_match # <<>> THEN <<Strip(paren_match[1]), Strip(paren_match[2])>>
        ELSE <<summary, Empty>>

ParseSummaryDotAll(text) == ParseSummaryWith(text, DotAll(text))

parse_summary(text) == ParseSummaryWith(text, DotOf(text))

-----------------------------------------------------------------------------
(* bu.parse_ical and northeastern.parse_semester_table *)

\* event[field] = value
Put(e, field, value) == (field :> value) @@ e

HalfPastEleven == <<"1", "1", ":", "3", "0">>
Apr30 == <<"A", "p", "r", " ", "3", "0">>
Abstract == <<"A", "b", "s", "t", "r", "a", "c", "t">>

\* bu.parse_event_block. A block is given by what its lines hold: dtstart is
\* "none" (no DTSTART line), "valid" (parse_ical_datetime returns a date and
\* a time) or "invalid" (it returns "", ""); summary, location and bio are
\* the captured texts, None without the line.
BuParseEventBlock(block) ==
    LET e0 == [series |-> SeriesX, series_url |-> SeriesX]
        e1 == IF block.dtstart = "none" THEN e0
              ELSE IF block.dtstart = "valid"
                   THEN Put(Put(e0, "date", Oct01), "time", HalfPastEleven)
                   ELSE Put(Put(e0, "date", Empty), "time", Empty)
        split == parse_summary(unfold_ical(block.summary))
        e2 == IF block.summary = PyNone THEN e1
              ELSE Put(Put(e1, "title", split[1]), "speaker", split[2])
        e3 == IF block.location = PyNone THEN e2
              ELSE Put(e2, "location", BuLocation(block.location))
    IN  IF block.bio # PyNone /\ Get(e3, "speaker") = Empty
        THEN Put(e3, "speaker", Strip(block.bio))
        ELSE e3

\* bu.parse_ical: the blocks whose event has a date
BuParseIcal(event_blocks) ==
    SelectSeq([k \in 1..Len(event_blocks) |-> BuParseEventBlock(event_blocks[k])],
              LAMBDA e : Get(e, "date") # Empty)

\* northeastern.parse_event_row, for a row of two cells or more: strong is
\* the texts of the <strong> tags of the first cell, talktitle the text of
\* the <talktitle> tag of the second (None without one) and content the
\* texts of the <strong> tags of the second cell, none of them around the
\* <talktitle> tag.
NortheasternParseEventRow(row, y) ==
    LET e0 == [series |-> SeriesH, series_url |-> SeriesH]
        e1 == IF Len(row.strong) >= 1
              THEN Put(e0, "date", NortheasternParseDate(row.strong[1], y)) ELSE e0
        e2 == IF Len(row.strong) >= 2
              THEN Put(e1, "time", NortheasternParseTime(row.strong[2])) ELSE e1
        e3 == IF Len(row.strong) >= 3 /\ NortheasternLocation(row.strong[3]) # PyNone
              THEN Put(e2, "location", NortheasternLocation(row.strong[3])) ELSE e2
        e4 == IF row.content # <<>> /\ ~StartsWith(Strip(row.content[1]), Abstract)
              THEN Put(e3, "speaker", Strip(row.content[1])) ELSE e3
        titles == { k \in 1..Len(row.content) :
                      /\ Strip(row.content[k]) # Empty
                      /\ Strip(row.content[k]) # Get(e4, "speaker")
                      /\ ~StartsWith(Strip(row.content[k]), Abstract) }
    IN  IF row.talktitle # PyNone THEN Put(e4, "title", Strip(row.talktitle))
        ELSE IF titles # {} THEN Put(e4, "title", Strip(row.content[Least(titles)]))
        ELSE e4

\* northeastern.parse_semester_table: rows of fewer than two cells are
\* passed over, and the events with a title and a date are kept
NortheasternParseSemesterTable(rows, y) ==
    LET full == SelectSeq(rows, LAMBDA row : row.cells >= 2)
    IN  SelectSeq([k \in 1..Len(full) |-> NortheasternParseEventRow(full[k], y)],
                  LAMBDA e : Get(e, "title") # Empty /\ Get(e, "date") # Empty)

-----------------------------------------------------------------------------
(* harvard.py: parse_date and parse_event_block *)

\* harvard.parse_date
HarvardParseDate(date_str) ==
    LET s == Strip(date_str)
        comma == Strptime(s, "%B %d, %Y")
        plain == Strptime(s, "%B %d %Y")
    IN  IF comma.ok THEN IsoDate(comma.year, comma.month, comma.day)
        ELSE IF plain.ok THEN IsoDate(plain.year, plain.month, plain.day)
        ELSE Empty

\* str.strip(chars)
RECURSIVE StripOf(_, _)
StripOf(s, chars) ==
    IF s # <<>> /\ s[1] \in chars THEN StripOf(Tail(s), chars)
    ELSE IF s # <<>> /\ s[Len(s)] \in chars THEN StripOf(SubSeq(s, 1, Len(s) - 1), chars)
    ELSE s

\* line.split(":", 1)[1], for a line with a colon
AfterColon(line) == Slice(line, Least(Positions(line, ":")) + 1, Len(line))

\* re.search(r"\(([^)]+)\)", s): the positions of the two parentheses of the
\* leftmost match, <<0, 0>> when there is none.
AffilMatch(s) ==
    LET opens == { q \in Positions(s, "(") :
                     \E c \in Positions(s, ")") :
                        c > q + 1 /\ Positions(s, ")") \cap (q..(c - 1)) = {} }
    IN  IF opens = {} THEN <<0, 0>>
        ELSE LET q == Least(opens)
             IN  <<q, Least({ c \in Positions(s, ")") : c > q })>>

HarvardName == <<"H", "a", "r", "v", "a", "r", "d">>
SpeakerLabel == <<"s", "p", "e", "a", "k", "e", "r">>
TitleLabel == <<"t", "i", "t", "l", "e">>
TimeLabel == <<"t", "i", "m", "e">>
LocationLabel == <<"l", "o", "c", "a", "t", "i", "o", "n">>

\* One turn of the loop of harvard.parse_event_block over the lines.
HarvardLine(e, raw_line) ==
    LET line == Strip(raw_line)
        value == Strip(AfterColon(line))
        affil_match == AffilMatch(value)
    IN  IF line = Empty \/ ":" \notin Range(line) THEN e
        ELSE IF StartsWith(Lower(line), SpeakerLabel)
        THEN IF affil_match # <<0, 0>>
             THEN Put(Put(e, "affiliation", Slice(value, affil_match[1] + 1, affil_match[2] - 1)),
                      "speaker", Strip(Slice(value, 1, affil_match[1] - 1)))
             ELSE Put(e, "speaker", value)
        ELSE IF StartsWith(Lower(line), TitleLabel)
        THEN Put(e, "title", StripOf(StripOf(value, {"\""}), {"'"}))
        ELSE IF StartsWith(Lower(line), TimeLabel)
        THEN Put(e, "time", HarvardParseTime(AfterColon(line)))
        ELSE IF StartsWith(Lower(line), LocationLabel)
        THEN Put(e, "location",
                 IF value # Empty /\ ~StartsWith(Lower(value), Lower(HarvardName))
                 THEN HarvardName \o <<" ">> \o value ELSE value)
        ELSE e

\* for line in lines: ...
HarvardLines(e, lines) ==
    LET after[k \in 0..Len(lines)] ==
            IF k = 0 THEN e ELSE HarvardLine(after[k - 1], lines[k])
    IN  after[Len(lines)]

\* harvard.parse_event_block, text_lines being text.strip().split("\n")
\* The date is worked out once, when the event is created.
HarvardParseEventBlock(text_lines, date_str) ==
    LET parsed(date) ==
            HarvardLines([series |-> SeriesH, series_url |-> SeriesH, date |-> date],
                         text_lines)
        event_of(date) ==
            IF Get(parsed(date), "title") = Empty
            THEN Put(parsed(date), "title", TBA) ELSE parsed(date)
    IN  CHOOSE e \in { event_of(date) : date \in {HarvardParseDate(date_str)} } : TRUE

-----------------------------------------------------------------------------
(* bu.parse_ical_datetime *)

\* str.rstrip(chars)
RECURSIVE RStripOf(_, _)
RStripOf(s, chars) ==
    IF s # <<>> /\ s[Len(s)] \in chars THEN RStripOf(SubSeq(s, 1, Len(s) - 1), chars)
    ELSE s

\* The value of a directive of strptime on the text t of one or two
\* characters, -1 when its pattern does not match: %m is 1[0-2]|0[1-9]|[1-9],
\* %d is 3[01]|[12]\d|0[1-9]|[1-9]| [1-9], %H is 2[0-3]|[0-1]\d|\d, %M is
\* [0-5]\d|\d and %S is 6[0-1]|[0-5]\d|\d.
DirectiveValue(directive, t) ==
    LET digits == \A k \in 1..Len(t) : t[k] \in Digits
        blank == Len(t) = 2 /\ t[1] = " " /\ t[2] \in Digits \ {"0"}
        n == IF blank THEN IntOf(<<t[2]>>) ELSE IF digits THEN IntOf(t) ELSE -1
        top == CASE directive = "%m" -> 12
                 [] directive = "%d" -> 31
                 [] directive = "%H" -> 23
                 [] directive = "%M" -> 59
                 [] OTHER -> 61
        least == IF directive \in {"%m", "%d"} THEN 1 ELSE 0
    IN  IF /\ Len(t) \in {1, 2}
           /\ digits \/ (blank /\ directive = "%d")
           /\ n \in least..top
           /\ (Len(t) = 2 /\ directive \in {"%m", "%d"} /\ ~blank) => n >= 1
        THEN n ELSE -1

\* The widths the five directives after %Y may take, the wider first.
IcalWidths == [1..5 -> {1, 2}]

\* The start of field k (1 for %m .. 5 for %S) of s under the widths w; the
\* letter T stands between the second and the third.
FieldStart(w, k) ==
    LET before == { j \in 1..5 : j < k }
        RECURSIVE Sum(_)
        Sum(S) == IF S = {} THEN 0 ELSE LET j == CHOOSE x \in S : TRUE
                                        IN  w[j] + Sum(S \ {j})
    IN  5 + Sum(before) + (IF k > 2 THEN 1 ELSE 0)

IcalDirectives == <<"%m", "%d", "%H", "%M", "%S">>

\* The widths under which "%Y%m%dT%H%M%S" matches the whole of s.
IcalMatches(s) ==
    { w \in IcalWidths :
        /\ FieldStart(w, 5) + w[5] = Len(s) + 1
        /\ \A k \in 1..4 : CharAt(s, k) \in Digits
        /\ CharAt(s, FieldStart(w, 3) - 1) = "T"
        /\ \A k \in 1..5 :
              DirectiveValue(IcalDirectives[k],
                             Slice(s, FieldStart(w, k), FieldStart(w, k) + w[k] - 1)) >= 0 }

\* datetime.strptime(s, "%Y%m%dT%H%M%S"): the match the regex finds first
\* (each directive as wide as the rest allows), then the checks of
\* datetime(); [ok |-> FALSE] stands for ValueError.
StrptimeIcal(s) ==
    LET matches == IcalMatches(s)
        Before(v, w) == \E k \in 1..5 : v[k] > w[k] /\ \A j \in 1..(k - 1) : v[j] = w[j]
        w == CHOOSE v \in matches : \A u \in matches \ {v} : Before(v, u)
        Field(k) == DirectiveValue(IcalDirectives[k],
                                   Slice(s, FieldStart(w, k), FieldStart(w, k) + w[k] - 1))
        y == IntOf(SubSeq(s, 1, 4))
    IN  IF matches = {} THEN [ok |-> FALSE]
        ELSE IF y >= 1 /\ Field(2) <= DaysInMonth(y, Field(1)) /\ Field(5) <= 59
        THEN [ok |-> TRUE, year |-> y, month |-> Field(1), day |-> Field(2),
              hour |-> Field(3), minute |-> Field(4)]
        ELSE [ok |-> FALSE]

\* timedelta(hours=5)
OffsetHours == 5

\* The day before the day d of month m of year y; year 0 when there is none
\* (datetime.min is January 1 of year 1).
DayBefore(y, m, d) ==
    IF d > 1 THEN [year |-> y, month |-> m, day |-> d - 1]
    ELSE IF m > 1 THEN [year |-> y, month |-> m - 1, day |-> DaysInMonth(y, m - 1)]
    ELSE [year |-> y - 1, month |-> 12, day |-> 31]

\* dt - timedelta(hours=5), for a dt of the given fields
Shifted(dt) ==
    IF dt.hour >= OffsetHours THEN [dt EXCEPT !.hour = dt.hour - OffsetHours]
    ELSE LET b == DayBefore(dt.year, dt.month, dt.day)
         IN  [dt EXCEPT !.year = b.year, !.month = b.month, !.day = b.day,
                        !.hour = dt.hour + 24 - OffsetHours]

\* What parse_ical_datetime does: "raise" for the OverflowError of the
\* subtraction, which the except clause for ValueError does not catch, and
\* the returned pair otherwise. strftime("%Y") writes the year as the C
\* library does, four digits for the years from 1000 on.
ParseIcalDatetime(dt_str) ==
    LET dt == StrptimeIcal(RStripOf(dt_str, {"Z"}))
    IN  IF ~dt.ok THEN [raises |-> FALSE, value |-> <<Empty, Empty>>]
        ELSE IF Shifted(dt).year < 1 THEN [raises |-> TRUE]
        ELSE [raises |-> FALSE,
              value |-> << IsoDate(Shifted(dt).year, Shifted(dt).month, Shifted(dt).day),
                           Format02(Shifted(dt).hour) \o <<":">> \o Format02(dt.minute) >>]

-----------------------------------------------------------------------------
(* scrape_events of northeastern and mit_cis: the semester headings *)

Spring == <<"s", "p", "r", "i", "n", "g">>
Fall == <<"f", "a", "l", "l">>

\* Where (Spring|Fall)\s*,?\s*(\d{4}) matches s from p on under re.I, the
\* position of the four digits, and 0 where it does not.
SemesterMatchAt(s, p) ==
    LET rest == Lower(Slice(s, p, Len(s)))
        word == IF StartsWith(rest, Spring) THEN Len(Spring)
                ELSE IF StartsWith(rest, Fall) THEN Len(Fall) ELSE 0
        q1 == SkipSpace(s, p + word)
        q2 == IF CharAt(s, q1) = "," THEN q1 + 1 ELSE q1
        q3 == SkipSpace(s, q2)
    IN  IF word > 0 /\ \A k \in q3..(q3 + 3) : CharAt(s, k) \in Digits THEN q3 ELSE 0

\* The year of northeastern.get_semester_year, 0 for None: scrape_events
\* tests it with "not year", which holds of both.
NortheasternSemesterYear(semester_text) ==
    LET hits == { p \in 1..Len(semester_text) : SemesterMatchAt(semester_text, p) > 0 }
        q == SemesterMatchAt(semester_text, Least(hits))
    IN  IF hits = {} THEN 0 ELSE IntOf(SubSeq(semester_text, q, q + 3))

\* mit_cis.get_semester_year, 0 for None: scrape_events tests it with
\* "if year", which fails for both.
MitCisSemesterYear(h2_text) ==
    LET hits == { p \in 1..Len(h2_text) :
                    \A k \in p..(p + 3) : CharAt(h2_text, k) \in Digits }
    IN  IF hits = {} THEN 0
        ELSE IntOf(SubSeq(h2_text, Least(hits), Least(hits) + 3))

\* The loop of northeastern.scrape_events over the <h2> headings of the
\* page, passing over the semesters of a year below first_year. A section of
\* the page is the text of its heading and the rows of the schedule table
\* found for it; schedule tells whether a table is found.
RECURSIVE NortheasternSemesters(_, _)
NortheasternSemesters(page, first_year) ==
    IF page = <<>> THEN <<>>
    ELSE LET h2 == Head(page)
             y == NortheasternSemesterYear(h2.text)
         IN  (IF y = 0 \/ y < first_year \/ ~h2.schedule THEN <<>>
              ELSE NortheasternParseSemesterTable(h2.table, y))
                 \o NortheasternSemesters(Tail(page), first_year)

\* northeastern.scrape_events
NortheasternScrapeEvents(page, current_year) ==
    NortheasternSemesters(page, current_year - 1)

MitCisLocation == <<"M", "I", "T", " ", "3", "2", "-", "G", "8", "8", "2">>
MitCisTime == <<"1", "0", ":", "3", "0">>

\* The event mit_cis.scrape_events makes of an <h3> element: siblings is the
\* texts of the elements after it that hold text, the first two at most.
MitCisEvent(h3, current_semester_year) ==
    LET e0 == [series |-> SeriesX, series_url |-> SeriesX,
               location |-> MitCisLocation, time |-> MitCisTime, title |-> Strip(h3.text)]
        split == parse_speaker(h3.siblings[1])
        e1 == IF h3.siblings = <<>> THEN e0
              ELSE IF split[2] # Empty
                   THEN Put(Put(e0, "speaker", split[1]), "affiliation", split[2])
                   ELSE Put(e0, "speaker", split[1])
    IN  IF Len(h3.siblings) < 2 THEN e1
        ELSE CHOOSE e \in { IF date \in {PyNone, Empty} THEN e1 ELSE Put(e1, "date", date) :
                               date \in {MitCisParseDate(h3.siblings[2], current_semester_year)} } :
                 TRUE

\* The loop of mit_cis.scrape_events over the <h2> and <h3> elements of the
\* page in order, with the year of the semester under way, passing over the
\* events of a year below cutoff_year.
RECURSIVE MitCisElements(_, _, _)
MitCisElements(page, current_semester_year, cutoff_year) ==
    IF page = <<>> THEN <<>>
    ELSE LET elem == Head(page)
             heading == { y \in {MitCisSemesterYear(elem.text)} : y # 0 }
         IN  IF elem.name = "h2"
             THEN MitCisElements(Tail(page),
                                 IF heading # {} THEN Least(heading) ELSE current_semester_year,
                                 cutoff_year)
             ELSE (IF current_semester_year >= cutoff_year /\ Strip(elem.text) # Empty
                   THEN SelectSeq(<<MitCisEvent(elem, current_semester_year)>>,
                                  LAMBDA e : Get(e, "date") # Empty)
                   ELSE <<>>)
                      \o MitCisElements(Tail(page), current_semester_year, cutoff_year)

\* mit_cis.scrape_events
MitCisScrapeEvents(page, current_year) ==
    MitCisElements(page, current_year, current_year - 1)

-----------------------------------------------------------------------------
(* combine.main, statement by statement *)

\* valid_events = [e for e in all_events if validate_event(e)]
Validate ==
    /\ pc = "collected"
    /\ valid_events' = ValidOnly(all_events)
    /\ seen' = <<>>
    /\ i' = 1
    /\ pc' = "dedup"
    /\ UNCHANGED <<all_events, events_json, pipelineVars, scoreVars>>

\* The loop body of deduplicate_events raises: the key is in seen and one of
\* the two event_completeness calls raises.
DedupRaises(d, e) ==
    \E k \in 1..Len(d) :
        d[k].key = KeyOf(e) /\ (ScoreRaises(e) \/ ScoreRaises(d[k].event))

\* for event in events: ... (one iteration); an exception ends main
DedupStep ==
    /\ pc = "dedup"
    /\ i <= Len(valid_events)
    /\ IF DedupRaises(seen, valid_events[i])
       THEN pc' = "error" /\ UNCHANGED <<seen, i>>
       ELSE /\ seen' = DedupScan(seen, valid_events[i])
            /\ i' = i + 1
            /\ pc' = pc
    /\ UNCHANGED <<all_events, valid_events, events_json, pipelineVars, scoreVars>>

\* list.sort raises TypeError: two sort keys of different types are compared.
SortRaises(events) ==
    \E a, b \in Range(events) : PyType(Get(a, "date")) # PyType(Get(b, "date"))

\* json.dump raises TypeError: a datetime.date is not JSON serializable.
DumpRaises(events) ==
    \E e \in Range(events) : \E f \in DOMAIN e : PyType(e[f]) = "date"

\* events.json after json.dump raised: opened with "w", so cut short.
PartialFile == <<"#partial">>

\* unique_events = list(seen.values()); unique_events.sort(...); json.dump;
\* an exception ends main
SortWrite ==
    /\ pc = "dedup"
    /\ i > Len(valid_events)
    /\ IF SortRaises(Values(seen))
       THEN pc' = "error" /\ UNCHANGED events_json
       ELSE IF DumpRaises(Values(seen))
       THEN pc' = "error" /\ events_json' = PartialFile
       ELSE /\ events_json' = SortByDate(Values(seen))
            /\ pc' = "written"
    /\ UNCHANGED <<all_events, valid_events, seen, i, pipelineVars, scoreVars>>

InitMerge ==
    /\ all_events \in SeqsUpTo(Candidates, MaxLen)
    /\ pc = "collected"
    /\ valid_events = <<>>
    /\ seen = <<>>
    /\ i = 1
    /\ events_json = <<>>
    /\ scraped = [s \in Sources |-> NoFile]
    /\ manual = <<>>
    /\ glob = <<>>
    /\ loaded = [s \in Sources |-> <<>>]
    /\ ran = {}
    /\ failed = {}
    /\ year = MaxYear
    /\ event = <<>>
    /\ score = -1
    /\ IdleCall

NextMerge == Validate \/ DedupStep \/ SortWrite

\* Records as load_manual_events can return them: yaml.safe_load turns an
\* unquoted 16:15 into an int and an unquoted 2025-10-01 into a datetime.date.
ManualCandidates ==
    { [title |-> Graphs, date |-> Oct01, series |-> SeriesX],
      [title |-> Graphs, date |-> Oct01, series |-> SeriesX, time |-> IntValue],
      [title |-> TBA, date |-> DateValue, series |-> SeriesX],
      [title |-> Graphs, date |-> Sep30, series |-> SeriesX],
      [title |-> Empty, date |-> Oct01, series |-> SeriesX],
      [series |-> SeriesX] }

\* No scraper has run and no file is there.
IdlePipeline ==
    /\ scraped = [s \in Sources |-> NoFile]
    /\ manual = <<>>
    /\ glob = <<>>
    /\ loaded = [s \in Sources |-> <<>>]
    /\ ran = {}
    /\ failed = {}
    /\ year = MaxYear

\* combine.main has not run.
IdleMerge ==
    /\ all_events = <<>>
    /\ valid_events = <<>>
    /\ seen = <<>>
    /\ i = 1
    /\ events_json = <<>>

IdleScore == event = <<>> /\ score = -1

InitManual ==
    /\ all_events \in SeqsUpTo(ManualCandidates, MaxLen)
    /\ pc = "collected"
    /\ valid_events = <<>>
    /\ seen = <<>>
    /\ i = 1
    /\ events_json = <<>>
    /\ IdlePipeline
    /\ IdleScore
    /\ IdleCall

SpecManual == InitManual /\ [][NextMerge]_vars

SpecMerge == InitMerge /\ [][NextMerge]_vars

-----------------------------------------------------------------------------
(* Scrape-then-combine runs *)

\* The manual events: none, or a hand-entered placeholder for the BU talk.
ManualLists ==
    { <<>>, <<[title |-> TBA, date |-> Oct01, series |-> SeriesX]>> }

Init ==
    /\ scraped \in [Sources -> {NoFile, Unreadable, NotJson, NotList}]
    /\ manual \in ManualLists
    /\ events_json = <<>>
    /\ glob = <<>>
    /\ loaded = [s \in Sources |-> <<>>]
    /\ ran = {}
    /\ failed = {}
    /\ year = MaxYear - 2
    /\ pc = "scraping"
    /\ all_events = <<>>
    /\ valid_events = <<>>
    /\ seen = <<>>
    /\ i = 1
    /\ event = <<>>
    /\ score = -1
    /\ IdleCall

Next ==
    \/ \E s \in Sources : Scrape(s)
    \/ \E s \in Sources : ScrapeFails(s)
    \/ Load
    \/ Validate
    \/ DedupStep
    \/ SortWrite
    \/ NextRun

Spec == Init /\ [][Next]_vars

-----------------------------------------------------------------------------
(* event_completeness on its own *)

TitleValues == {Empty, TBA, tba, TBD, tbd, Tbd, TBDtalk, tbdtalk, Graphs}

OtherValues == {TBA, tba, TBD, tbd, Lee}

\* Events over the scored fields: any subset of them present.
ScoreEvents ==
    UNION { { e \in [D -> TitleValues \cup OtherValues] :
                \A f \in D : e[f] \in (IF f = "title" THEN TitleValues ELSE OtherValues) } :
            D \in SUBSET Range(ScoredFields) }

\* score = event_completeness(event)
Score ==
    /\ score = -1
    /\ score' = event_completeness(event)
    /\ UNCHANGED <<event, arg, res, pc, pipelineVars, mergeVars>>

InitScore ==
    /\ event \in ScoreEvents
    /\ score = -1
    /\ pc = "scoring"
    /\ all_events = <<>>
    /\ valid_events = <<>>
    /\ seen = <<>>
    /\ i = 1
    /\ events_json = <<>>
    /\ scraped = [s \in Sources |-> NoFile]
    /\ manual = <<>>
    /\ glob = <<>>
    /\ loaded = [s \in Sources |-> <<>>]
    /\ ran = {}
    /\ failed = {}
    /\ year = MaxYear
    /\ IdleCall

NextScore == Score

SpecScore == InitScore /\ [][NextScore]_vars

-----------------------------------------------------------------------------
(* The time normalizers on their own *)

\* The am/pm markers, none included.
Markers == { Empty, <<"a", "m">>, <<"p", "m">>,
             <<"a", ".", "m", ".">>, <<"p", ".", "m", ".">> }

\* "H:MM marker"
TimeText(h, mm, marker) ==
    DecStr(h) \o <<":">> \o Format02(mm)
        \o (IF marker = Empty THEN Empty ELSE <<" ">> \o marker)

TimeCalls ==
    [fn : {"harvard.parse_time", "northeastern.parse_time"},
     h : 1..12, mm : 0..59, marker : Markers]

\* Nothing but the helper call is under way.
OnlyCall == pc = "call" /\ IdlePipeline /\ IdleMerge /\ IdleScore /\ res = NotCalled

CallParseTime ==
    /\ pc = "call"
    /\ arg.fn \in {"harvard.parse_time", "northeastern.parse_time"}
    /\ res' = IF arg.fn = "harvard.parse_time"
              THEN HarvardParseTime(TimeText(arg.h, arg.mm, arg.marker))
              ELSE NortheasternParseTime(TimeText(arg.h, arg.mm, arg.marker))
    /\ pc' = "returned"
    /\ UNCHANGED <<arg, event, score, pipelineVars, mergeVars>>

InitTime == arg \in TimeCalls /\ OnlyCall

NextTime == CallParseTime

SpecTime == InitTime /\ [][NextTime]_vars

-----------------------------------------------------------------------------
(* Year inference on its own *)

\* How the title of an RSS item can write month m: in full, abbreviated,
\* abbreviated with a dot, in capitals.
MonthForms(m) ==
    { MonthNames[m], Slice(MonthNames[m], 1, 3), Slice(MonthNames[m], 1, 3) \o <<".">>,
      Upper(MonthNames[m]) }

\* The month and day the regex of parse_rss_item takes from the title.
EventDateStrs(m) == { form \o <<" ", "1", "4">> : form \in MonthForms(m) }

YearCalls ==
    UNION { [fn : {"crypto_day.parse_rss_item"},
             m : {m}, event_date_str : EventDateStrs(m),
             pub_year : (MaxYear - 3)..MaxYear, pub_month : 1..12] : m \in 1..12 }

CallEventYear ==
    /\ pc = "call"
    /\ arg.fn = "crypto_day.parse_rss_item"
    /\ res' = [event_month |-> parse_month(arg.event_date_str),
               event_year |-> EventYear(arg.event_date_str, arg.pub_year, arg.pub_month)]
    /\ pc' = "returned"
    /\ UNCHANGED <<arg, event, score, pipelineVars, mergeVars>>

InitYear == arg \in YearCalls /\ OnlyCall

NextYear == CallEventYear

SpecYear == InitYear /\ [][NextYear]_vars

-----------------------------------------------------------------------------
(* The date normalizers on their own *)

\* "Mon D" for northeastern; "Month D" and "Month D, YYYY" for mit_cis.
DateText(fn, form, m, d, y) ==
    IF fn = "northeastern.parse_date"
    THEN Slice(MonthNames[m], 1, 3) \o <<" ">> \o DecStr(d)
    ELSE MonthNames[m] \o <<" ">> \o DecStr(d)
             \o (IF form = "full" THEN <<",", " ">> \o DecStr(y) ELSE Empty)

DateCalls ==
    { c \in [fn : {"northeastern.parse_date", "mit_cis.parse_date"},
             form : {"monthday", "full"},
             m : 1..12, d : 1..31, year : (MaxYear - 4)..MaxYear] :
        c.fn = "northeastern.parse_date" => c.form = "monthday" }

CallParseDate ==
    /\ pc = "call"
    /\ arg.fn \in {"northeastern.parse_date", "mit_cis.parse_date"}
    /\ res' = IF arg.fn = "northeastern.parse_date"
              THEN NortheasternParseDate(
                       DateText(arg.fn, arg.form, arg.m, arg.d, arg.year), arg.year)
              ELSE MitCisParseDate(
                       DateText(arg.fn, arg.form, arg.m, arg.d, arg.year), arg.year)
    /\ pc' = "returned"
    /\ UNCHANGED <<arg, event, score, pipelineVars, mergeVars>>

InitDate == arg \in DateCalls /\ OnlyCall

NextDate == CallParseDate

SpecDate == InitDate /\ [][NextDate]_vars

-----------------------------------------------------------------------------
(* The recency filters of bu.main, mit_mlcrypto.scrape_events and
   mit_toc.scrape_events *)

\* mit_mlcrypto.scrape_events: cutoff_year = current_year - 1, and a block
\* with a date is appended when int(date[:4]) >= cutoff_year
MitMlcryptoEvents(parsed, current_year) ==
    SelectSeq(parsed, LAMBDA e :
        /\ Get(e, "date") # Empty
        /\ IntOf(SubSeq(e["date"], 1, 4)) >= current_year - 1)

\* mit_toc.scrape_events: every card with a title and a date is appended
MitTocEvents(parsed) ==
    SelectSeq(parsed, LAMBDA e : Get(e, "title") # Empty /\ Get(e, "date") # Empty)

\* A parsed candidate dated March 5 of year y.
ParsedIn(y) == [title |-> Graphs, date |-> IsoDate(y, 3, 5)]

RecencyCalls ==
    { c \in [fn : {"bu.main", "mit_mlcrypto.scrape_events", "mit_toc.scrape_events"},
             current_year : (MaxYear - 2)..MaxYear,
             years : UNION { [1..n -> (MaxYear - 5)..MaxYear] : n \in 1..(MaxLen - 1) }] :
        TRUE }

ParsedOf(c) == [k \in 1..Len(c.years) |-> ParsedIn(c.years[k])]

CallRecency ==
    /\ pc = "call"
    /\ arg.fn \in {"bu.main", "mit_mlcrypto.scrape_events", "mit_toc.scrape_events"}
    /\ res' = CASE arg.fn = "bu.main" ->
                     Written("bu", ParsedOf(arg), arg.current_year)
                [] arg.fn = "mit_mlcrypto.scrape_events" ->
                     MitMlcryptoEvents(ParsedOf(arg), arg.current_year)
                [] OTHER -> MitTocEvents(ParsedOf(arg))
    /\ pc' = "returned"
    /\ UNCHANGED <<arg, event, score, pipelineVars, mergeVars>>

InitRecency == arg \in RecencyCalls /\ OnlyCall

NextRecency == CallRecency

SpecRecency == InitRecency /\ [][NextRecency]_vars

-----------------------------------------------------------------------------
(* The location of one block *)

InstitutionName(fn) ==
    CASE fn = "northeastern.parse_event_row" -> NortheasternName
      [] fn = "mit_toc.parse_event_card" -> MitName
      [] OTHER -> BuName

Rooms == {<<"I", "S", "E", "C", " ", "6", "5", "5">>, <<"3", "2", "-", "G", "4", "4", "9">>, <<"C", "D", "S", " ", "1", "1", "0", "1">>, <<"H", "a", "l", "l">>, <<"R", "o", "o", "m", " ", "1">>}

\* The raw location: a room, with the institution name before it or not, in
\* the letter case given, and with blanks around it or not.
RawLocation(fn, room, form, padded) ==
    LET name == InstitutionName(fn)
        text == CASE form = "bare" -> room
                  [] form = "named" -> name \o <<" ">> \o room
                  [] form = "lower" -> Lower(name) \o <<" ">> \o room
                  [] OTHER -> Upper(name) \o <<" ">> \o room
    IN  IF padded THEN <<" ">> \o text \o <<" ">> ELSE text

LocationCalls ==
    [fn : {"northeastern.parse_event_row", "mit_toc.parse_event_card",
           "bu.parse_event_block"},
     room : Rooms, form : {"bare", "named", "lower", "upper"}, padded : BOOLEAN]

CallLocation ==
    /\ pc = "call"
    /\ arg.fn \in {"northeastern.parse_event_row", "mit_toc.parse_event_card",
                   "bu.parse_event_block"}
    /\ LET raw == RawLocation(arg.fn, arg.room, arg.form, arg.padded)
       IN  res' = CASE arg.fn = "northeastern.parse_event_row" -> NortheasternLocation(raw)
                    [] arg.fn = "mit_toc.parse_event_card" -> MitTocLocation(raw)
                    [] OTHER -> BuLocation(raw)
    /\ pc' = "returned"
    /\ UNCHANGED <<arg, event, score, pipelineVars, mergeVars>>

InitLocation == arg \in LocationCalls /\ OnlyCall

NextLocation == CallLocation

SpecLocation == InitLocation /\ [][NextLocation]_vars

-----------------------------------------------------------------------------
(* The speaker splitters on their own *)

TextChars == {"a", " ", ":", "(", ")", "\n"}

RECURSIVE Repeat(_, _)
Repeat(c, n) == IF n = 0 THEN <<>> ELSE <<c>> \o Repeat(c, n - 1)

\* Summaries with a bracket before the colon, and with a text before the
\* colon one short of the limit and at the limit.
LongTexts ==
    { <<"[", "a", "]", ":", "a", " ", "(", "a", ")">>,
      <<"a", "{", ":", "a">>,
      Repeat("a", MaxSpeakerLen - 1) \o <<":", " ", "a">>,
      Repeat("a", MaxSpeakerLen) \o <<":", " ", "a">>,
      Repeat("a", MaxSpeakerLen) \o <<":", "a", " ", "(", "a", ")">> }

SplitCalls ==
    [fn : {"bu.parse_summary", "mit_cis.parse_speaker"},
     text : SeqsUpTo(TextChars, MaxText) \cup LongTexts]

CallSplit ==
    /\ pc = "call"
    /\ arg.fn \in {"bu.parse_summary", "mit_cis.parse_speaker"}
    /\ res' = IF arg.fn = "bu.parse_summary"
              THEN parse_summary(arg.text) ELSE parse_speaker(arg.text)
    /\ pc' = "returned"
    /\ UNCHANGED <<arg, event, score, pipelineVars, mergeVars>>

InitSplit == arg \in SplitCalls /\ OnlyCall

NextSplit == CallSplit

SpecSplit == InitSplit /\ [][NextSplit]_vars

-----------------------------------------------------------------------------
(* The assemblers of bu and northeastern on their own *)

BuBlocks ==
    { b \in [dtstart : {"none", "valid", "invalid"},
             summary : {PyNone, <<"a", ":", " ", "a">>, <<"a", ":">>,
                        <<"a", " ", "(", "a", ")">>},
             location : {PyNone, Games},
             bio : {PyNone, Lee}] :
        b.bio # PyNone => (b.summary = PyNone /\ b.location = PyNone) }

NortheasternRows ==
    { r \in [cells : {1, 2},
             strong : {<<>>, <<TBA>>, <<Apr30>>, <<Apr30, <<"4", ":", "0", "0", "p", "m">>, Games>>},
             talktitle : {PyNone, Empty, Graphs},
             content : {<<>>, <<Lee>>, <<Lee, Graphs>>, <<Lee, Abstract>>}] :
        /\ r.cells = 1 => (r.talktitle = Graphs /\ r.content = <<>>)
        /\ r.talktitle # PyNone => Len(r.content) <= 1 }

AssembleCalls ==
    [fn : {"bu.parse_ical"}, blocks : SeqsUpTo(BuBlocks, MaxLen - 1)]
        \cup [fn : {"northeastern.parse_semester_table"},
              blocks : SeqsUpTo(NortheasternRows, MaxLen - 1)]

\* The events of the blocks, one for each block that is parsed.
ParsedBlocks(c) ==
    IF c.fn = "bu.parse_ical"
    THEN [k \in 1..Len(c.blocks) |-> BuParseEventBlock(c.blocks[k])]
    ELSE LET full == SelectSeq(c.blocks, LAMBDA row : row.cells >= 2)
         IN  [k \in 1..Len(full) |-> NortheasternParseEventRow(full[k], MaxYear)]

CallAssemble ==
    /\ pc = "call"
    /\ arg.fn \in {"bu.parse_ical", "northeastern.parse_semester_table"}
    /\ res' = IF arg.fn = "bu.parse_ical" THEN BuParseIcal(arg.blocks)
              ELSE NortheasternParseSemesterTable(arg.blocks, MaxYear)
    /\ pc' = "returned"
    /\ UNCHANGED <<arg, event, score, pipelineVars, mergeVars>>

InitAssemble == arg \in AssembleCalls /\ OnlyCall

NextAssemble == CallAssemble

SpecAssemble == InitAssemble /\ [][NextAssemble]_vars

-----------------------------------------------------------------------------
(* unfold_ical on its own *)

IcalChars == {",", ";", "\\", "\n", "n", "a"}

\* The escaped form of a text value in an iCalendar file: the backslash is
\* doubled, comma and semicolon get a backslash, the line break becomes \n.
RECURSIVE Escaped(_)
Escaped(t) ==
    IF t = <<>> THEN <<>>
    ELSE (CASE t[1] = "\\" -> <<"\\", "\\">>
            [] t[1] = "," -> <<"\\", ",">>
            [] t[1] = ";" -> <<"\\", ";">>
            [] t[1] = "\n" -> <<"\\", "n">>
            [] OTHER -> <<t[1]>>) \o Escaped(Tail(t))

\* s folded after each of the positions at: a line break (with a carriage
\* return before it or not) and a space are put in.
RECURSIVE Folded(_, _, _)
Folded(s, at, crlf) ==
    IF at = {} THEN s
    ELSE LET p == CHOOSE q \in at : \A r \in at : r <= q
             break == IF crlf THEN <<"\r", "\n", " ">> ELSE <<"\n", " ">>
         IN  Folded(Slice(s, 1, p), at \ {p}, crlf) \o break \o Slice(s, p + 1, Len(s))

UnfoldCalls ==
    { c \in [fn : {"bu.unfold_ical"},
             text : SeqsUpTo(IcalChars, MaxLen) \ {<<>>},
             at : SUBSET (1..(MaxLen + MaxLen - 1)),
             crlf : BOOLEAN] :
        /\ Strip(c.text) = c.text
        /\ Cardinality(c.at) < MaxLen
        /\ \A p \in c.at : p < Len(Escaped(c.text)) }

CallUnfold ==
    /\ pc = "call"
    /\ arg.fn = "bu.unfold_ical"
    /\ res' = unfold_ical(Folded(Escaped(arg.text), arg.at, arg.crlf))
    /\ pc' = "returned"
    /\ UNCHANGED <<arg, event, score, pipelineVars, mergeVars>>

InitUnfold == arg \in UnfoldCalls /\ OnlyCall

NextUnfold == CallUnfold

SpecUnfold == InitUnfold /\ [][NextUnfold]_vars

-----------------------------------------------------------------------------
(* harvard.parse_event_block on its own *)

BlockLines ==
    { <<"S", "p", "e", "a", "k", "e", "r", ":", " ", "L", "e", "e", " ", "(", "B", "U", ")">>,
      <<"S", "P", "E", "A", "K", "E", "R", ":", " ", "A", "d", "a">>,
      <<"S", "p", "e", "a", "k", "e", "r", "s", ":", " ", "L", "e", "e", ",", " ", "A", "d", "a">>,
      <<"T", "i", "t", "l", "e", ":", " ", "\"", "G", "\"">>,
      <<"T", "I", "T", "L", "E", ":", " ", "H">>,
      <<"t", "i", "t", "l", "e", ":">>,
      <<"T", "i", "m", "e", ":", " ", "3", ":", "4", "5", "-", "5", ":", "0", "0", " ", "p", ".", "m", ".">>,
      <<"t", "i", "m", "e", ":", " ", "1", "0", ":", "0", "0", " ", "a", ".", "m", ".">>,
      <<"L", "o", "c", "a", "t", "i", "o", "n", ":", " ", "S", "E", "C", " ", "1">>,
      <<"L", "O", "C", "A", "T", "I", "O", "N", ":", " ", "H", "a", "r", "v", "a", "r", "d", " ", "H", "a", "l", "l">>,
      <<"T", "i", "t", "l", "e">>,
      <<"A", "b", "s", "t", "r", "a", "c", "t", ":", " ", "a">>,
      <<>> }

BlockCalls ==
    [fn : {"harvard.parse_event_block"},
     lines : SeqsUpTo(BlockLines, MaxLen) \ {<<>>},
     date_str : {<<"O", "c", "t", "o", "b", "e", "r", " ", "1", ",", " ", "2", "0", "2", "5">>, <<"O", "c", "t", "o", "b", "e", "r", " ", "1", " ", "2", "0", "2", "5">>}]

CallParseEventBlock ==
    /\ pc = "call"
    /\ arg.fn = "harvard.parse_event_block"
    /\ res' = HarvardParseEventBlock(arg.lines, arg.date_str)
    /\ pc' = "returned"
    /\ UNCHANGED <<arg, event, score, pipelineVars, mergeVars>>

InitBlock == arg \in BlockCalls /\ OnlyCall

NextBlock == CallParseEventBlock

SpecBlock == InitBlock /\ [][NextBlock]_vars

-----------------------------------------------------------------------------
(* bu.parse_ical_datetime on its own *)

\* Four digits of a year
Format04(n) ==
    LET d == DecStr(n)
    IN  [k \in 1..(4 - Len(d)) |-> "0"] \o d

\* "YYYYMMDDTHHMMSS" with an optional Z, as DTSTART[^:]*:(\d{8}T\d{6}Z?)
\* captures it
Timestamp(a) ==
    Format04(a.year) \o Format02(a.month) \o Format02(a.day) \o <<"T">>
        \o Format02(a.hour) \o Format02(a.minute) \o Format02(a.second)
        \o (IF a.z THEN <<"Z">> ELSE Empty)

\* Timestamps of the first year, of the last years up to MaxYear (a leap
\* year among them), around the ends of the months and around the fifth
\* hour, with fields out of range among them.
IcalCalls ==
    [fn : {"bu.parse_ical_datetime"},
     year : {1} \cup ((MaxYear - 4)..MaxYear),
     month : {1, 2, 3, 12, 13},
     day : {1, 29, 30, 31},
     hour : {0, 4, 5, 23, 24},
     minute : {0, 59, 60},
     second : {0, 60},
     z : BOOLEAN]

CallParseIcalDatetime ==
    /\ pc = "call"
    /\ arg.fn = "bu.parse_ical_datetime"
    /\ LET r == CHOOSE x \in { ParseIcalDatetime(t) : t \in {Timestamp(arg)} } : TRUE
       IN  IF r.raises
           THEN pc' = "error" /\ res' = res
           ELSE pc' = "returned" /\ res' = r.value
    /\ UNCHANGED <<arg, event, score, pipelineVars, mergeVars>>

InitIcal == arg \in IcalCalls /\ OnlyCall

NextIcal == CallParseIcalDatetime

SpecIcal == InitIcal /\ [][NextIcal]_vars

-----------------------------------------------------------------------------
(* scrape_events of northeastern and mit_cis on their own *)

\* The years of the headings and of the dates: the last four up to MaxYear.
SemesterYears == (MaxYear - 3)..MaxYear

\* "Fall 2025", "Spring, 2025" and a heading without a year
HeadingTexts ==
    { <<"F", "a", "l", "l", " ">> \o DecStr(y) : y \in SemesterYears }
        \cup { <<"S", "p", "r", "i", "n", "g", ",", " ">> \o DecStr(y) : y \in SemesterYears }
        \cup { <<"A", "r", "c", "h", "i", "v", "e">> }

\* No row, a row with a date and a title, and one without a date after it
NortheasternTables ==
    { <<>>,
      << [cells |-> 2, strong |-> <<Apr30>>, talktitle |-> Graphs, content |-> <<Lee>>] >>,
      << [cells |-> 2, strong |-> <<Apr30>>, talktitle |-> Graphs, content |-> <<Lee>>],
         [cells |-> 2, strong |-> <<>>, talktitle |-> Games, content |-> <<>>] >> }

NortheasternPages ==
    SeqsUpTo({ h2 \in [text : HeadingTexts, schedule : BOOLEAN, table : NortheasternTables] :
                 ~h2.schedule => h2.table = <<>> },
             MaxLen - 1)

March5 == <<"M", "a", "r", "c", "h", " ", "5">>

\* The <h2> headings, and <h3> elements followed by a speaker and a date
\* without a year, by a speaker and a date with a year, by a speaker alone
\* and by nothing
MitCisPageElements ==
    [name : {"h2"}, text : { h \in HeadingTexts : h[1] # "S" }, siblings : {<<>>}]
        \cup [name : {"h3"}, text : {Graphs},
              siblings : { <<>>, <<Lee>>, <<Lee, March5>>,
                           <<Lee, March5 \o <<",", " ">> \o DecStr(MaxYear - 3)>> }]

MitCisPages == SeqsUpTo(MitCisPageElements, MaxLen)

SemesterCalls ==
    [fn : {"northeastern.scrape_events"}, page : NortheasternPages,
     current_year : (MaxYear - 1)..MaxYear]
        \cup [fn : {"mit_cis.scrape_events"}, page : MitCisPages,
              current_year : (MaxYear - 1)..MaxYear]

CallScrapeEvents ==
    /\ pc = "call"
    /\ arg.fn \in {"northeastern.scrape_events", "mit_cis.scrape_events"}
    /\ res' = IF arg.fn = "northeastern.scrape_events"
              THEN NortheasternScrapeEvents(arg.page, arg.current_year)
              ELSE MitCisScrapeEvents(arg.page, arg.current_year)
    /\ pc' = "returned"
    /\ UNCHANGED <<arg, event, score, pipelineVars, mergeVars>>

InitSemester == arg \in SemesterCalls /\ OnlyCall

NextSemester == CallScrapeEvents

SpecSemester == InitSemester /\ [][NextSemester]_vars

-----------------------------------------------------------------------------
(* harvard.parse_time on a time range *)

\* "S - E" and "S-E"
RangeText(a) ==
    TimeText(a.h, a.mm, a.marker) \o a.dash \o TimeText(a.end_h, 0, a.end_marker)

\* The ranges of which the start, the end or both carry a marker
RangeCalls ==
    { a \in [fn : {"harvard.parse_time"}, h : 1..12, mm : {0, 30}, marker : Markers,
             dash : {<<"-">>, <<" ", "-", " ">>}, end_h : 1..12, end_marker : Markers] :
        a.marker # Empty \/ a.end_marker # Empty }

CallParseTimeRange ==
    /\ pc = "call"
    /\ arg.fn = "harvard.parse_time"
    /\ res' = HarvardParseTime(RangeText(arg))
    /\ pc' = "returned"
    /\ UNCHANGED <<arg, event, score, pipelineVars, mergeVars>>

InitRange == arg \in RangeCalls /\ OnlyCall

NextRange == CallParseTimeRange

SpecRange == InitRange /\ [][NextRange]_vars

-----------------------------------------------------------------------------
(* Notions the claims are stated in *)

\* The identity key as the claims word it: a missing date or series counts
\* as the empty string.
ClaimKey(e) ==
    <<IF "date" \in DOMAIN e THEN e["date"] ELSE <<>>,
      IF "series" \in DOMAIN e THEN e["series"] ELSE <<>>>>

\* Both required fields are present and non-empty.
HasTitleAndDate(e) ==
    /\ "title" \in DOMAIN e /\ e["title"] # <<>>
    /\ "date" \in DOMAIN e /\ e["date"] # <<>>

Orderings(n) == { p \in [1..n -> 1..n] : \A a, b \in 1..n : p[a] = p[b] => a = b }

Permuted(s, p) == [k \in 1..Len(s) |-> s[p[k]]]

\* The valid candidates of a sequence that carry the key.
Group(events, key) == { e \in Range(events) : HasTitleAndDate(e) /\ ClaimKey(e) = key }

\* The records of a catalog that carry the key.
RecordsFor(cat, key) == { e \in Range(cat) : ClaimKey(e) = key }

\* Index in events of the first valid candidate with the key (0 when none).
FirstSeen(events, key) ==
    LET hits == { k \in 1..Len(events) :
                    HasTitleAndDate(events[k]) /\ ClaimKey(events[k]) = key }
    IN  IF hits = {} THEN 0 ELSE CHOOSE k \in hits : \A h \in hits : k <= h

\* C1. Idempotence of the merge: the written catalog is merge(X) of the
\* collected candidates X, merging it again gives the same sequence, and so
\* does merging it concatenated with X.
MergeIdempotent ==
    pc = "written" =>
        /\ events_json = Merge(all_events)
        /\ Merge(events_json) = events_json
        /\ Merge(events_json \o all_events) = events_json

\* A merge that removed a duplicate and whose sort moved a record: the
\* catalog has at least two records, fewer than the valid candidates, and is
\* not in dict order.
MergeIdempotentWitness ==
    /\ pc = "written"
    /\ Len(events_json) >= 2
    /\ Len(events_json) < Len(valid_events)
    /\ events_json # Values(seen)

\* C2. Uniqueness: no two records of the final catalog share the same
\* (date, series) pair, a missing series or date counting as the empty string.
UniqueKeys ==
    \A j, k \in 1..Len(events_json) :
        j # k => ClaimKey(events_json[j]) # ClaimKey(events_json[k])

\* Two valid candidates of one day, one without a series and one with the
\* empty series, were merged into a catalog.
UniqueKeysWitness ==
    /\ pc = "written"
    /\ \E a, b \in Range(valid_events) :
          /\ "series" \notin DOMAIN a
          /\ "series" \in DOMAIN b /\ b["series"] = <<>>
          /\ Get(a, "date") = Get(b, "date")
    /\ Len(events_json) >= 2

\* What C3 says of one catalog cat built from the candidates events, with
\* Top(a, g) deciding when a counts as the highest of its group g.
MonotonicIn(cat, events, Top(_, _)) ==
    \A a, b \in Range(ValidOnly(events)) :
        (ClaimKey(a) = ClaimKey(b) /\ event_completeness(a) > event_completeness(b)) =>
            /\ b \notin RecordsFor(cat, ClaimKey(a))
            /\ Top(a, Group(events, ClaimKey(a))) => RecordsFor(cat, ClaimKey(a)) = {a}

HasHighestScore(a, g) == \A c \in g : event_completeness(a) >= event_completeness(c)

StrictlyHighestScore(a, g) == \A c \in g \ {a} : event_completeness(a) > event_completeness(c)

\* C3 as written. Monotonic completeness: when valid candidates A and B share
\* a key and A scores strictly higher, the catalog's record for the key is
\* never B, and it is A when A has the highest score of its group, for every
\* permutation of the input.
MonotonicCompletenessAsClaimed ==
    pc = "written" =>
        /\ MonotonicIn(events_json, all_events, HasHighestScore)
        /\ \A p \in Orderings(Len(all_events)) :
              MonotonicIn(Merge(Permuted(all_events, p)), all_events, HasHighestScore)

\* C3 as amended. The record for the key is never B, and it is A when A
\* scores strictly higher than every other candidate of its group, for every
\* permutation of the input.
MonotonicCompleteness ==
    pc = "written" =>
        /\ MonotonicIn(events_json, all_events, StrictlyHighestScore)
        /\ \A p \in Orderings(Len(all_events)) :
              MonotonicIn(Merge(Permuted(all_events, p)), all_events, StrictlyHighestScore)

\* The scan stored B first and then met the strictly more complete A of the
\* same key, which the catalog holds.
MonotonicCompletenessWitness ==
    /\ pc = "written"
    /\ \E j, k \in 1..Len(valid_events) :
          /\ j < k
          /\ ClaimKey(valid_events[j]) = ClaimKey(valid_events[k])
          /\ event_completeness(valid_events[k]) > event_completeness(valid_events[j])
          /\ StrictlyHighestScore(valid_events[k], Group(all_events, ClaimKey(valid_events[k])))
          /\ valid_events[k] \in Range(events_json)

\* Index in events of the first candidate of the key's group with the
\* highest score of the group.
FirstBest(events, key) ==
    CHOOSE k \in 1..Len(events) :
        /\ ClaimKey(events[k]) = key
        /\ \A h \in 1..Len(events) : ClaimKey(events[h]) = key =>
              /\ event_completeness(events[k]) >= event_completeness(events[h])
              /\ (event_completeness(events[k]) = event_completeness(events[h]) => k <= h)

GroupWinnerKept ==
    pc = "written" =>
        \A e \in Range(valid_events) :
            /\ Cardinality({ k \in 1..Len(events_json) :
                               ClaimKey(events_json[k]) = ClaimKey(e) }) = 1
            /\ RecordsFor(events_json, ClaimKey(e))
                  = { valid_events[FirstBest(valid_events, ClaimKey(e))] }

ReplacedOnlyByStrictlyGreater ==
    (pc = "dedup" /\ pc' = "dedup") =>
        \A k \in 1..Len(seen) :
            /\ k <= Len(seen')
            /\ seen'[k].key = seen[k].key
            /\ seen'[k].event # seen[k].event =>
                  event_completeness(seen'[k].event) > event_completeness(seen[k].event)

\* C6. Group winner and tie-break: for each key the catalog keeps exactly one
\* candidate, the first in the input among those with the highest score of
\* the group, and a stored record is replaced during the scan only by a
\* candidate with a strictly greater score.
GroupWinner == [](GroupWinnerKept) /\ [][ReplacedOnlyByStrictlyGreater]_vars

\* A group of three in which two distinct candidates tie for the highest
\* score and the stored record was replaced once: the first candidate is not
\* the winner and the last of the tied ones is not either.
GroupWinnerWitness ==
    /\ pc = "written"
    /\ \E j, k, h \in 1..Len(valid_events) :
          /\ j < k /\ k < h
          /\ ClaimKey(valid_events[j]) = ClaimKey(valid_events[k])
          /\ ClaimKey(valid_events[k]) = ClaimKey(valid_events[h])
          /\ event_completeness(valid_events[j]) < event_completeness(valid_events[k])
          /\ event_completeness(valid_events[k]) = event_completeness(valid_events[h])
          /\ valid_events[k] # valid_events[h]
          /\ valid_events[k] \in Range(events_json)

\* C7. Validation gate: a candidate whose title or date is missing or empty
\* never appears in the final catalog, and the candidates passed on to
\* deduplication are exactly those with a non-empty title and a non-empty
\* date, in input order.
ValidationGate ==
    /\ \A e \in Range(events_json) : HasTitleAndDate(e)
    /\ pc \in {"dedup", "written"} => valid_events = SelectSeq(all_events, HasTitleAndDate)

\* A catalog was written from an input holding a candidate without a title,
\* one with an empty date, and a valid one.
ValidationGateWitness ==
    /\ pc = "written"
    /\ \E e \in Range(all_events) : "title" \notin DOMAIN e
    /\ \E e \in Range(all_events) : "date" \in DOMAIN e /\ e["date"] = <<>>
    /\ events_json # <<>>

\* a <= b on str
StrLeq(a, b) == a = b \/ StrLess(a, b)

HasRealDetails(e) == Get(e, "title") # <<>> /\ Upper(Get(e, "title")) \notin {TBA, TBD}

NoRegressionStep ==
    (pc = "dedup" /\ pc' = "written") =>
        \A a \in Range(events_json), b \in Range(events_json') :
            (HasRealDetails(a) /\ ClaimKey(a) = ClaimKey(b)) =>
                event_completeness(b) >= event_completeness(a)

\* C4. No regression across runs: once the catalog holds a record with real
\* details for a key, the catalog the next combine writes holds no record
\* with a lower completeness score for that key.
NoRegression == [][NoRegressionStep]_vars

\* The score as C5 words it: one point per scored field that is present
\* (read as: holds a non-empty value) and is not "TBA" or "TBD" in any
\* letter case, plus 2 when the title is present, is no placeholder and does
\* not contain "TBD" (in any letter case, as for the placeholders).
ClaimedPoint(e, f) ==
    IF f \in DOMAIN e /\ e[f] # <<>> /\ Upper(e[f]) \notin {TBA, TBD} THEN 1 ELSE 0

RECURSIVE ClaimedPoints(_, _)
ClaimedPoints(e, fields) ==
    IF fields = {} THEN 0
    ELSE LET f == CHOOSE f \in fields : TRUE
         IN  ClaimedPoint(e, f) + ClaimedPoints(e, fields \ {f})

ClaimedScore(e) ==
    ClaimedPoints(e, {"title", "speaker", "location", "time", "affiliation", "url"})
        + (IF /\ ClaimedPoint(e, "title") = 1
              /\ ~Contains(TBD, Upper(e["title"]))
           THEN 2 ELSE 0)

\* C5. Completeness score: event_completeness is the number of scored fields
\* that are present and not "TBA" or "TBD" compared case-insensitively, plus 2
\* for a title that is present, no placeholder and without "TBD"; it lies
\* between 0 and 8.
CompletenessScore ==
    score # -1 => (score = ClaimedScore(event) /\ score \in 0..8)

\* C9. Retrieval failure contributes nothing: a source whose fetch failed in
\* the run contributes no candidate to the merge of that run.
FailedSourceContributesNothing ==
    pc \in {"collected", "dedup", "written"} =>
        \A s \in failed : loaded[s] = <<>>

\* The data of the files that load, concatenated in the given order.
RECURSIVE GoodData(_)
GoodData(order) ==
    IF order = <<>> THEN <<>>
    ELSE (IF scraped[Head(order)].kind = "list" THEN scraped[Head(order)].data ELSE <<>>)
             \o GoodData(Tail(order))

MergeNeverFails ==
    /\ pc # "error"
    /\ (pc = "written" /\ \A e \in Range(all_events) : ~HasTitleAndDate(e)) =>
          events_json = <<>>

\* The 24-hour hour C12 states for hour h under a marker.
ClaimedHour(h, marker) ==
    IF marker \in {<<"p", "m">>, <<"p", ".", "m", ".">>}
    THEN (IF h = 12 THEN 12 ELSE h + 12)
    ELSE IF marker \in {<<"a", "m">>, <<"a", ".", "m", ".">>}
    THEN (IF h = 12 THEN 0 ELSE h)
    ELSE h

\* The two decimal digits of n < 100.
TwoDigits(n) == <<DigitChar(n \div 10), DigitChar(n % 10)>>

\* C12. Time resolution: each time normalizer maps "H:MM marker" to HH:MM
\* with 12 am giving 00, 12 pm staying 12, other pm hours H+12 and am or
\* unmarked hours H, the same for the dotted and the bare marker.
TimeResolution ==
    pc = "returned" =>
        res = TwoDigits(ClaimedHour(arg.h, arg.marker)) \o <<":">> \o TwoDigits(arg.mm)

\* C13. Year inference for syndication items: with publication year Y and
\* month P and event month M, the event year is Y when M >= P and Y + 1 when
\* M < P, so the event's (year, month) is never before the publication's.
YearInference ==
    pc = "returned" =>
        /\ res.event_month = arg.m
        /\ res.event_year = (IF arg.m >= arg.pub_month THEN arg.pub_year ELSE arg.pub_year + 1)
        /\ \/ res.event_year > arg.pub_year
           \/ res.event_year = arg.pub_year /\ res.event_month >= arg.pub_month

\* An event of January written "Jan. 14", announced in December, was put in
\* the next year.
YearInferenceWitness ==
    /\ pc = "returned"
    /\ arg.pub_month = 12
    /\ arg.event_date_str = <<"J", "a", "n", ".", " ", "1", "4">>
    /\ res.event_month = 1
    /\ res.event_year = arg.pub_year + 1

\* The text is YYYY-MM-DD and names a day of the calendar.
IsRealDate(text) ==
    /\ Len(text) = 10
    /\ \A k \in {1, 2, 3, 4, 6, 7, 9, 10} : text[k] \in Digits
    /\ text[5] = "-" /\ text[8] = "-"
    /\ IntOf(SubSeq(text, 6, 7)) \in 1..12
    /\ IntOf(SubSeq(text, 9, 10)) \in
          1..DaysInMonth(IntOf(SubSeq(text, 1, 4)), IntOf(SubSeq(text, 6, 7)))

\* C14. Date validity: a date normalizer returns no value (empty or None) or
\* a string YYYY-MM-DD naming a real calendar date, and a February 29 without
\* a year of its own is resolved against the supplied year: the date in a
\* leap year, no value otherwise.
DateValidity ==
    pc = "returned" =>
        /\ res \in {Empty, PyNone} \/ IsRealDate(res)
        /\ (arg.form = "monthday" /\ arg.m = 2 /\ arg.d = 29) =>
              IF IsLeap(arg.year)
              THEN res = DecStr(arg.year) \o <<"-", "0", "2", "-", "2", "9">>
              ELSE res \in {Empty, PyNone}

\* C15. Recency window: what a source hands on is exactly its parsed
\* candidates whose date year is at least the current year minus two.
RecencyWindow ==
    pc = "returned" =>
        /\ Range(res) \subseteq Range(ParsedOf(arg))
        /\ \A k \in 1..Len(arg.years) :
              (ParsedIn(arg.years[k]) \in Range(res))
                  <=> (arg.years[k] >= arg.current_year - 2)

\* C16. Location prefixing: the assembled location starts with the
\* institution's name; a raw location that already starts with the name, in
\* any letter case, is left unchanged, and the name is never prepended twice.
LocationPrefixing ==
    pc = "returned" =>
        LET name == InstitutionName(arg.fn)
            location == Strip(RawLocation(arg.fn, arg.room, arg.form, arg.padded))
        IN  /\ StartsWith(Lower(res), Lower(name))
            /\ StartsWith(Lower(location), Lower(name)) => res = location
            /\ ~StartsWith(Lower(res), Lower(name \o <<" ">> \o name))

\* The ways to read s as a text, an opening parenthesis, a text without a
\* closing parenthesis, and a closing parenthesis that ends s: the positions
\* of the two parentheses.
Parentheticals(s) ==
    { qc \in Positions(s, "(") \X Positions(s, ")") :
        /\ 1 < qc[1] /\ qc[1] + 1 < qc[2]
        /\ Positions(s, ")") \cap (qc[1]..qc[2]) = {qc[2]}
        /\ SkipSpace(s, qc[2] + 1) = Len(s) + 1
        /\ Strip(Slice(s, 1, qc[1] - 1)) # Empty }

Before(s, qc) == Slice(s, 1, qc[1] - 1)
Inside(s, qc) == Slice(s, qc[1] + 1, qc[2] - 1)

OneLine(text) == "\n" \notin Range(text)

\* The texts spoken of: those of one line, or all of them.
Keep(one_line, text) == one_line => OneLine(text)

\* The splits of s at its closing parenthetical for which the text before
\* is one spoken of.
SplitsAt(s, one_line) ==
    { <<Strip(Before(s, qc)), Strip(Inside(s, qc))>> :
        qc \in { x \in Parentheticals(s) : Keep(one_line, RStrip(Before(s, x))) } }

\* s is "N (A)": one pair of parentheses, the closing one at the end, and
\* something other than blanks on each side of the opening one.
NameAffiliation(s) ==
    { qc \in Parentheticals(s) :
        /\ Cardinality(Positions(s, "(")) = 1
        /\ Cardinality(Positions(s, ")")) = 1
        /\ Strip(Inside(s, qc)) # Empty }

\* A colon of s whose left segment is shorter than 50 characters and has
\* no bracket character: the split at the first colon.
ColonSplit(s) ==
    LET k == Least(Positions(s, ":"))
    IN  IF /\ Positions(s, ":") # {}
           /\ Len(Strip(Slice(s, 1, k - 1))) < MaxSpeakerLen
           /\ Range(Slice(s, 1, k - 1)) \cap BracketChars = {}
        THEN {<<Strip(Slice(s, k + 1, Len(s))), Strip(Slice(s, 1, k - 1))>>}
        ELSE {}

\* The speaker split for the texts spoken of: any other text is taken whole.
SpeakerSplitFor(one_line) ==
    pc = "returned" =>
        LET s == Strip(arg.text)
        IN  IF arg.fn = "mit_cis.parse_speaker"
            THEN \A qc \in NameAffiliation(arg.text) :
                    (/\ Keep(one_line, RStrip(Before(arg.text, qc)))
                     /\ Keep(one_line, Inside(arg.text, qc)))
                        => res = <<Strip(Before(arg.text, qc)), Strip(Inside(arg.text, qc))>>
            ELSE IF ColonSplit(s) # {} THEN res \in ColonSplit(s)
            ELSE IF SplitsAt(s, one_line) # {} THEN res \in SplitsAt(s, one_line)
            ELSE res = <<s, Empty>>

\* The claim as written: every "N (A)" and every closing parenthetical.
SpeakerSplitAsClaimed == SpeakerSplitFor(FALSE)

\* C18. Speaker split: parse_speaker maps "N (A)" with non-empty N and A,
\* neither holding a line break, to (N, A) with surrounding blanks removed;
\* parse_summary maps a summary to (right part, left part) at a colon whose
\* left segment is shorter than 50 characters and has no bracket character,
\* otherwise to (text before, text inside) when it ends in a parenthetical
\* and the text before it holds no line break, otherwise to (whole summary,
\* empty speaker).
SpeakerSplit == SpeakerSplitFor(TRUE)

\* parse_summary has split "a (a)" at its parenthetical.
SpeakerSplitWitness ==
    /\ pc = "returned"
    /\ arg.text = <<"a", " ", "(", "a", ")">>
    /\ arg.fn = "bu.parse_summary"
    /\ res = <<(<<"a">>), (<<"a">>)>>

\* C17. Assembler discard rule: every candidate a source adapter emits has
\* a non-empty title and a non-empty date, and the emitted candidates are
\* those of all the blocks that have both, in the order of the blocks.
AssemblerDiscardRule ==
    pc = "returned" =>
        /\ \A k \in 1..Len(res) : HasTitleAndDate(res[k])
        /\ res = SelectSeq(ParsedBlocks(arg), HasTitleAndDate)

\* C19. Unescape round trip: unfold_ical applied to the escaped and folded
\* form of a text without leading or trailing whitespace returns the text;
\* an escaped backslash followed by the letter n yields a backslash and an n.
UnescapeRoundTrip == pc = "returned" => res = arg.text

\* The lines of the block that start with the label, in any letter case,
\* and hold a value after a colon.
LabelLines(lines, label) ==
    { k \in 1..Len(lines) :
        /\ StartsWith(Lower(Strip(lines[k])), label)
        /\ ":" \in Range(lines[k]) }

\* C20. First match per label wins: when several lines of a block start
\* with the same field label, the field of the event is the one the first
\* of these lines gives, whatever the later ones hold.
FirstMatchWins ==
    pc = "returned" =>
        \A lf \in {<<"speaker", SpeakerLabel>>, <<"title", TitleLabel>>,
                   <<"time", TimeLabel>>, <<"location", LocationLabel>>} :
            LabelLines(arg.lines, lf[2]) # {} =>
                LET first == arg.lines[Least(LabelLines(arg.lines, lf[2]))]
                IN  Get(res, lf[1])
                        = Get(HarvardParseEventBlock(<<first>>, arg.date_str), lf[1])


\* The timestamp of arg names an instant: a day of the calendar and a time
\* of the day.
ValidTimestamp ==
    /\ arg.year >= 1
    /\ arg.month \in 1..12
    /\ arg.day \in 1..DaysInMonth(arg.year, arg.month)
    /\ arg.hour \in 0..23
    /\ arg.minute \in 0..59
    /\ arg.second \in 0..59

\* The days of the calendar that the day after d of month m of year y is the
\* day of arg.
EveOfArg ==
    { b \in [year : (arg.year - 1)..arg.year, month : 1..12, day : 1..31] :
        /\ b.day <= DaysInMonth(b.year, b.month)
        /\ \/ b.year = arg.year /\ b.month = arg.month /\ b.day + 1 = arg.day
           \/ /\ b.year = arg.year /\ b.month + 1 = arg.month
              /\ b.day = DaysInMonth(b.year, b.month) /\ arg.day = 1
           \/ /\ b.year + 1 = arg.year /\ b.month = 12 /\ b.day = 31
              /\ arg.month = 1 /\ arg.day = 1 }

\* The date and the time of the instant five hours before the timestamp of
\* arg.
FiveHoursEarlier ==
    IF arg.hour >= 5
    THEN { << IsoDate(arg.year, arg.month, arg.day),
              Format02(arg.hour - 5) \o <<":">> \o Format02(arg.minute) >> }
    ELSE { << IsoDate(b.year, b.month, b.day),
              Format02(arg.hour + 19) \o <<":">> \o Format02(arg.minute) >> : b \in EveOfArg }

\* C21. Once parse_ical_datetime is over for a timestamp YYYYMMDDTHHMMSS with
\* or without Z, it has raised nothing; for a valid timestamp it has returned
\* the date and the HH:MM of the instant five hours earlier, the day before
\* when the hour is below 05, and for any other timestamp it has returned an
\* empty date and an empty time.
FixedOffsetShift ==
    (arg.fn = "bu.parse_ical_datetime" /\ pc # "call") =>
        /\ pc = "returned"
        /\ IF ValidTimestamp THEN res \in FiveHoursEarlier
           ELSE res = <<Empty, Empty>>

\* The events of every semester of the page of arg, none of them skipped.
EverySemester ==
    IF arg.fn = "northeastern.scrape_events" THEN NortheasternSemesters(arg.page, 0)
    ELSE MitCisElements(arg.page, arg.current_year, 0)

\* C22. Once scrape_events of northeastern or of mit_cis has returned, the
\* events it emits, whole semesters skipped, are exactly the events of every
\* semester of the page that the two-year filter on the date of each event
\* keeps.
SemesterSkipIsOptimization ==
    (arg.fn \in {"northeastern.scrape_events", "mit_cis.scrape_events"} /\ pc = "returned") =>
        res = RecentOnly(EverySemester, arg.current_year)

\* The marker that decides the hour of the start of the range of arg: its
\* own, and the marker of the end when it has none.
StartMarker == IF arg.marker # Empty THEN arg.marker ELSE arg.end_marker

\* The hour of the start of the range of arg on the 24-hour clock.
StartHour ==
    IF "p" \in Range(StartMarker) THEN (IF arg.h = 12 THEN 12 ELSE arg.h + 12)
    ELSE (IF arg.h = 12 THEN 0 ELSE arg.h)

\* C23. Once harvard.parse_time has returned for a range "S - E" with a
\* marker on the start, on the end or on both, it has returned the start
\* time as HH:MM of the 24-hour clock, the hour decided by the marker of the
\* start and, when the start has none, by the marker of the end.
RangeStartTime ==
    (arg.fn = "harvard.parse_time" /\ pc = "returned") =>
        /\ StartHour \in 0..23
        /\ res = Format02(StartHour) \o <<":">> \o Format02(arg.mm)
=============================================================================
